---------------------------- MODULE Spec2Model ----------------------------
(***************************************************************************)
(* Wear-Search backend: the relevance-feedback retrieval loop.             *)
(*                                                                         *)
(*   VectorStore     (app/vector_store.py)    index + metadata             *)
(*   RocchioAlgorithm(app/rocchio.py)         refine_query, PRF            *)
(*   QueryComposer   (app/query_composer.py)  compose                      *)
(*   SessionManager  (app/session_manager.py) sessions, iterations         *)
(*   request handlers(app/main.py)            one action per endpoint      *)
(*                                                                         *)
(* Vectors are 2-dimensional and their components are fixed-point numbers: *)
(* the integer n stands for n / Scale, so <<Scale, 0>> is the unit vector  *)
(* [1.0, 0.0].  Every product is brought back to that scale with a         *)
(* round-to-nearest division, which plays the part of float32 rounding.    *)
(*                                                                         *)
(* Specifications:                                                         *)
(*   Spec         the service: the HTTP handlers of main.py                *)
(*   SpecStore    the VectorStore API called directly                      *)
(*   SpecSession  the SessionManager API called directly                   *)
(*   SpecReap     the SessionManager API with the passing of time          *)
(*   SpecLive     the running service while the days pass                  *)
(*   SpecAsync    requests served at the same time by one event loop       *)
(*   SpecCatalog  the VectorStore beside the SessionManager                *)
(*   SpecRocchio  RocchioAlgorithm.refine_query called directly            *)
(*   SpecSingleton the constructors of the two singletons, called by       *)
(*                 several threads                                         *)
(***************************************************************************)
EXTENDS Integers, Sequences, FiniteSets, TLC

VARIABLES
    index,      \* VectorStore.index: the vectors held by the faiss engine, slot s at index[s+1]
    metadata,   \* VectorStore.metadata: [images |-> list of entries, id_to_idx |-> dict]
    sessions,   \* SessionManager.sessions: dict session_id -> Session
    resp,       \* the last call: what was asked and what was answered
    clock,      \* the wall clock datetime.now() reads, in hours
    minted,     \* the session ids uuid4 has given out so far
    pending,    \* the requests suspended at an await, by event-loop task
    ctor        \* the singleton classes (_instance, _lock, the objects' _initialized)
                \* and the constructor call each thread is in

vars == <<index, metadata, sessions, resp, clock, minted, pending, ctor>>

-----------------------------------------------------------------------------
(* Bounds of the model *)

\* at most this many vectors are ever held by the engine
MaxStore == 3

\* at most this many iterations are recorded through add_iteration, over all
\* sessions (SpecSession, SpecReap)
MaxIter == 3

\* at most this many rounds are recorded by the service, over all sessions (Spec)
MaxRounds == 3

\* the service takes uploads while it holds fewer vectors than this (Spec)
MaxUploads == 1

\* the clock is followed for this many hours (SpecReap)
MaxClock == 2

-----------------------------------------------------------------------------
(* Fixed-point arithmetic *)

\* the integer that stands for 1.0
Scale == 10 * 10

\* Python's None, where a string is expected
None == "None"

\* Python's None (or an empty array), where a vector or a list of vectors is expected
NoVector == <<>>

\* the empty dict
EmptyDict == [x \in {} |-> 0]

Min(a, b) == IF a <= b THEN a ELSE b

Abs(a) == IF a >= 0 THEN a ELSE -a

\* a / b rounded to the nearest integer (b > 0), symmetric around zero
Div(a, b) == IF a >= 0 THEN (2 * a + b) \div (2 * b)
                       ELSE -((2 * (-a) + b) \div (2 * b))

RECURSIVE SqrtSearch(_, _, _)
SqrtSearch(n, lo, hi) ==
    IF lo >= hi THEN lo
    ELSE LET mid == (lo + hi + 1) \div 2
         IN  IF mid * mid <= n THEN SqrtSearch(n, mid, hi)
                               ELSE SqrtSearch(n, lo, mid - 1)

\* the square root of n, rounded to the nearest integer
Sqrt(n) == LET r == SqrtSearch(n, 0, n)
           IN  IF n - r * r > r THEN r + 1 ELSE r

\* np.dot of two fixed-point vectors, at scale Scale * Scale
Dot(u, v) == u[1] * v[1] + u[2] * v[2]

\* np.linalg.norm, at scale Scale
Norm(v) == Sqrt(Dot(v, v))

\* scalar * vector, the scalar at scale Scale
Scaled(c, v) == [i \in DOMAIN v |-> Div(c * v[i], Scale)]

VAdd(u, v) == [i \in DOMAIN u |-> u[i] + v[i]]

VSub(u, v) == [i \in DOMAIN u |-> u[i] - v[i]]

\* IEEE not-a-number, what numpy's 0.0 / 0.0 gives: a value no number equals
NaN == -(Scale * Scale * Scale)

\* v / norm, the division numpy performs without looking at the norm: the zero
\* vector comes out as a row of NaN
Unit(v) ==
    LET n == Norm(v)
    IN  IF n = 0 THEN [i \in DOMAIN v |-> NaN]
        ELSE [i \in DOMAIN v |-> Div(v[i] * Scale, n)]

RECURSIVE VSum(_)
VSum(vs) == IF Len(vs) = 1 THEN vs[1] ELSE VAdd(vs[1], VSum(Tail(vs)))

\* np.mean(vectors, axis=0) of a non-empty list of vectors
Mean(vs) == LET s == VSum(vs) IN [i \in DOMAIN s |-> Div(s[i], Len(vs))]

\* the elements of a sequence
Range(s) == {s[i] : i \in DOMAIN s}

-----------------------------------------------------------------------------
(* Embedding oracle (app/encoder.py): unit-norm vectors *)

Texts == {"red", "blue", "navy"}

\* the uploads sent as image/...; the bytes of broken.png are not a picture
Images == {"imgA", "imgB", "imgC", "broken.png"}

\* can Image.open read the upload (it raises on bytes that are no picture)
Decodable(image) == image # "broken.png"

encode_text(text) ==
    CASE text = "red"  -> <<Scale, 0>>
      [] text = "blue" -> <<0, Scale>>
      [] OTHER         -> Unit(<<3, 4>>)

encode_image(image) ==
    CASE image = "imgA" -> <<Scale, 0>>
      [] image = "imgB" -> <<0, Scale>>
      [] OTHER          -> <<-Scale, 0>>

-----------------------------------------------------------------------------
(* VectorStore (app/vector_store.py) *)

\* the image ids callers use; "Z" is never inserted
Ids == {"A", "B", "C"}

UnknownId == "Z"

\* self.index.ntotal
ntotal == Len(index)

\* the dict d after d[k] = v
DictSet(d, k, v) == [x \in DOMAIN d \cup {k} |-> IF x = k THEN v ELSE d[x]]

\* the metadata loop of add_vectors over zip(image_ids, filenames), from position i on
RECURSIVE add_entries(_, _, _, _, _)
add_entries(meta, image_ids, filenames, start_idx, i) ==
    IF i > Min(Len(image_ids), Len(filenames)) THEN meta
    ELSE LET idx == start_idx + (i - 1)
             next == [images    |-> Append(meta.images,
                                           [image_id |-> image_ids[i],
                                            filename |-> filenames[i],
                                            idx      |-> idx]),
                      id_to_idx |-> DictSet(meta.id_to_idx, image_ids[i], idx)]
         IN  add_entries(next, image_ids, filenames, start_idx, i + 1)

\* the rows handed to self.index.add: every vector divided by its norm
normalized_rows(vectors) == [i \in DOMAIN vectors |-> Unit(vectors[i])]

\* mutant of add_vectors: the call is left after self.index.add, before the
\* metadata loop
add_vectors_index_only(vectors, image_ids, filenames) ==
    [index    |-> index \o normalized_rows(vectors),
     metadata |-> metadata]

\* mutant of add_vectors: start_idx is read after self.index.add
add_vectors_start_after(vectors, image_ids, filenames) ==
    [index    |-> index \o normalized_rows(vectors),
     metadata |-> add_entries(metadata, image_ids, filenames,
                              ntotal + Len(vectors), 1)]

\* VectorStore.add_vectors: the store after the call
add_vectors(vectors, image_ids, filenames) ==
    [index    |-> index \o normalized_rows(vectors),
     metadata |-> add_entries(metadata, image_ids, filenames, ntotal, 1)]

\* the slots faiss may return for a query: any k distinct slots in non-increasing
\* order of inner product such that no slot left out scores higher than one
\* returned (the order among equal scores is the engine's); a request for more
\* than ntotal rows is padded with slot -1
faiss_search(q, k) ==
    LET kk    == Min(k, ntotal)
        slots == 0 .. (ntotal - 1)
        score(s) == Dot(q, index[s + 1])
        pad   == [i \in 1 .. (k - kk) |-> [score |-> -(Scale * Scale * Scale), idx |-> -1]]
    IN  { [i \in 1 .. kk |-> [score |-> score(f[i]), idx |-> f[i]]] \o pad :
            f \in { g \in [1 .. kk -> slots] :
                      /\ \A i, j \in 1 .. kk : i < j => g[i] # g[j] /\ score(g[i]) >= score(g[j])
                      /\ \A s \in slots : \A i \in 1 .. kk :
                            (\A j \in 1 .. kk : g[j] # s) => score(s) <= score(g[i]) } }

\* the number of rows asked of faiss
search_top_k(top_k) == Min(top_k, ntotal)

\* mutant of valid_hit: slot 0 is taken for "no result"
valid_hit_positive(idx) == idx > 0 /\ idx < Len(metadata.images)

\* the test a returned row must pass to be reported
valid_hit(idx) == idx >= 0 /\ idx < Len(metadata.images)

\* mutant of hit_entry: the slot is taken as a 1-based position (images[idx - 1])
hit_entry_shifted(idx) ==
    IF idx = 0 THEN metadata.images[Len(metadata.images)] ELSE metadata.images[idx]

\* the metadata entry reported for a returned row
hit_entry(idx) == metadata.images[idx + 1]

\* the rows search reports, from one answer of faiss
RECURSIVE collect_hits(_)
collect_hits(rows) ==
    IF rows = <<>> THEN [image_ids |-> <<>>, scores |-> <<>>, metadata_list |-> <<>>]
    ELSE LET rest == collect_hits(Tail(rows))
             row  == rows[1]
         IN  IF valid_hit(row.idx)
             THEN [image_ids     |-> <<hit_entry(row.idx).image_id>> \o rest.image_ids,
                   scores        |-> <<row.score>> \o rest.scores,
                   metadata_list |-> <<hit_entry(row.idx)>> \o rest.metadata_list]
             ELSE rest

\* VectorStore.search: the answers the call may give
search(query_vector, top_k) ==
    IF ntotal = 0
    THEN {[image_ids |-> <<>>, scores |-> <<>>, metadata_list |-> <<>>]}
    ELSE {collect_hits(rows) : rows \in faiss_search(Unit(query_vector), search_top_k(top_k))}

\* VectorStore.get_vector: the stored vector, or None
get_vector(image_id) ==
    IF image_id \notin DOMAIN metadata.id_to_idx THEN NoVector
    ELSE index[metadata.id_to_idx[image_id] + 1]

\* VectorStore.get_vectors: the vectors of the ids that are found, in request order
RECURSIVE get_vectors(_)

\* mutant of get_vectors: the loop ends at the first id that is not found
get_vectors_stop(image_ids) ==
    IF image_ids = <<>> THEN <<>>
    ELSE LET vec == get_vector(image_ids[1])
         IN  IF vec # NoVector THEN <<vec>> \o get_vectors(Tail(image_ids))
                               ELSE <<>>

get_vectors(image_ids) ==
    IF image_ids = <<>> THEN <<>>
    ELSE LET vec == get_vector(image_ids[1])
         IN  IF vec # NoVector THEN <<vec>> \o get_vectors(Tail(image_ids))
                           ELSE get_vectors(Tail(image_ids))

\* VectorStore.get_all_vectors: every row of the engine, or the empty array
get_all_vectors == IF ntotal = 0 THEN NoVector ELSE index

\* mutant of clear: the engine is replaced and the metadata is kept
clear_index_only == [index |-> <<>>, metadata |-> metadata]

\* VectorStore.clear: the store after the call
clear == [index |-> <<>>, metadata |-> [images |-> <<>>, id_to_idx |-> EmptyDict]]

-----------------------------------------------------------------------------
(* SessionManager (app/session_manager.py) *)

\* the ids uuid4 may mint
SessionIds == {"s1", "s2"}

\* a session id no session ever has
UnknownSession == "s?"

\* Session.current_iteration
current_iteration(session) == Len(session.iterations)

\* Session.current_query_vector: the last iteration's vector, or None
current_query_vector(session) ==
    IF session.iterations # <<>>
    THEN session.iterations[Len(session.iterations)].query_vector
    ELSE NoVector

\* SessionManager.create_session: the sessions after minting new_id
create_session(new_id) ==
    DictSet(sessions, new_id,
            [session_id |-> new_id, created_at |-> clock, iterations |-> <<>>])

\* SessionManager.get_session: is there such a session
has_session(session_id) == session_id \in DOMAIN sessions

\* SessionManager.get_session: the session, or nothing (None)
get_session(session_id) ==
    IF session_id \in DOMAIN sessions THEN <<sessions[session_id]>> ELSE <<>>

\* mutant of next_iteration_number: the count before the append, without the + 1
next_iteration_number_stale(session) == current_iteration(session)

\* the number add_iteration gives the new iteration
next_iteration_number(session) == current_iteration(session) + 1

\* SessionManager.add_iteration on a known session: the sessions (sess) after the
\* call; a feedback list left out (None) is stored as the empty list
add_iteration(sess, session_id, query_vector, query_type, results, positive_feedback, negative_feedback, text_feedback) ==
    LET session   == sess[session_id]
        iteration == [iteration         |-> next_iteration_number(session),
                      query_vector      |-> query_vector,
                      query_type        |-> query_type,
                      results           |-> results,
                      positive_feedback |-> positive_feedback,
                      negative_feedback |-> negative_feedback,
                      text_feedback     |-> text_feedback]
    IN  [sess EXCEPT ![session_id].iterations = Append(@, iteration)]

\* mutant of stored_aliases: add_iteration keeps the caller's array itself
stored_aliases_nocopy(session_id, n) == {<<session_id, n>>}

\* add_iteration stores query_vector.copy(): the stored iterations, as
\* <<session id, position>>, that share memory with the array the caller passed
\* for iteration n of the session
stored_aliases(session_id, n) == {}

\* mutant of add_iteration_call: an unknown session is created on the fly
add_iteration_call_autocreate(sess, session_id, query_vector, query_type, results, positive_feedback, negative_feedback, text_feedback) ==
    LET known == IF session_id \in DOMAIN sess THEN sess
                 ELSE DictSet(sess, session_id, [session_id |-> session_id,
                                                 created_at |-> clock,
                                                 iterations |-> <<>>])
    IN  [raised    |-> None,
         iteration |-> next_iteration_number(known[session_id]),
         aliases   |-> stored_aliases(session_id, next_iteration_number(known[session_id])),
         sessions  |-> add_iteration(known, session_id, query_vector, query_type, results,
                                     positive_feedback, negative_feedback, text_feedback)]

\* SessionManager.add_iteration, whole call: what it raises or returns, and the
\* sessions after it
add_iteration_call(sess, session_id, query_vector, query_type, results, positive_feedback, negative_feedback, text_feedback) ==
    IF session_id \notin DOMAIN sess
    THEN [raised |-> "ValueError", iteration |-> 0, aliases |-> {}, sessions |-> sess]
    ELSE [raised    |-> None,
          iteration |-> next_iteration_number(sess[session_id]),
          aliases   |-> stored_aliases(session_id, next_iteration_number(sess[session_id])),
          sessions  |-> add_iteration(sess, session_id, query_vector, query_type, results,
                                      positive_feedback, negative_feedback, text_feedback)]

\* mutant of update_last_iteration_feedback: the first iteration is written
\* (iterations[0] for iterations[-1])
update_first_iteration_feedback(sess, session_id, positive_ids, negative_ids, text_feedback) ==
    IF session_id \in DOMAIN sess /\ sess[session_id].iterations # <<>>
    THEN [sess EXCEPT ![session_id].iterations[1].positive_feedback = positive_ids,
                      ![session_id].iterations[1].negative_feedback = negative_ids,
                      ![session_id].iterations[1].text_feedback = text_feedback]
    ELSE sess

\* mutant of update_last_iteration_feedback: every iteration of the session is
\* written
update_every_iteration_feedback(sess, session_id, positive_ids, negative_ids, text_feedback) ==
    IF session_id \in DOMAIN sess /\ sess[session_id].iterations # <<>>
    THEN [sess EXCEPT ![session_id].iterations =
             [i \in DOMAIN @ |-> [@[i] EXCEPT !.positive_feedback = positive_ids,
                                              !.negative_feedback = negative_ids,
                                              !.text_feedback = text_feedback]]]
    ELSE sess

\* mutant of update_last_iteration_feedback: the last iteration of every
\* session is written
update_all_sessions_feedback(sess, session_id, positive_ids, negative_ids, text_feedback) ==
    IF session_id \in DOMAIN sess /\ sess[session_id].iterations # <<>>
    THEN [sid \in DOMAIN sess |->
             IF sess[sid].iterations = <<>> THEN sess[sid]
             ELSE [sess[sid] EXCEPT
                      !.iterations[Len(sess[sid].iterations)].positive_feedback = positive_ids,
                      !.iterations[Len(sess[sid].iterations)].negative_feedback = negative_ids,
                      !.iterations[Len(sess[sid].iterations)].text_feedback = text_feedback]]
    ELSE sess

\* SessionManager.update_last_iteration_feedback: the sessions (sess) after the call
update_last_iteration_feedback(sess, session_id, positive_ids, negative_ids, text_feedback) ==
    IF session_id \in DOMAIN sess /\ sess[session_id].iterations # <<>>
    THEN LET n == Len(sess[session_id].iterations)
         IN  [sess EXCEPT ![session_id].iterations[n].positive_feedback = positive_ids,
                          ![session_id].iterations[n].negative_feedback = negative_ids,
                          ![session_id].iterations[n].text_feedback = text_feedback]
    ELSE sess

\* mutant of session_age: the difference is taken the wrong way round
session_age_reversed(now, session) == session.created_at - now

\* cleanup_old_sessions: the age of a session in hours
session_age(now, session) == now - session.created_at

\* mutant of expired: a session that is exactly max_age_hours old goes too
expired_inclusive(age, max_age_hours) == age >= max_age_hours

\* cleanup_old_sessions: is a session of that age removed
expired(age, max_age_hours) == age > max_age_hours

\* cleanup_old_sessions: the ids collected for removal
to_remove(now, max_age_hours) ==
    {sid \in DOMAIN sessions : expired(session_age(now, sessions[sid]), max_age_hours)}

\* SessionManager.cleanup_old_sessions: the sessions after the sweep
cleanup_old_sessions(max_age_hours) ==
    [sid \in DOMAIN sessions \ to_remove(clock, max_age_hours) |-> sessions[sid]]

\* mutant of too_few_vectors: only an empty list is too short for the fit
too_few_vectors_empty(query_vectors) == Len(query_vectors) < 1

\* get_query_vectors_2d: `len(query_vectors) < 2`
too_few_vectors(query_vectors) == Len(query_vectors) < 2

\* PCA(n_components=2).fit: the fitted rows are centred on their mean.  With
\* two features the two components span the plane; how the fit turns the axes
\* is not modelled.
pca_fit(all_vectors) == [mean_ |-> Mean(all_vectors)]

\* PCA.transform: each row in the coordinates of the fit
pca_transform(pca, rows) == [i \in DOMAIN rows |-> VSub(rows[i], pca.mean_)]

\* mutant of projected_rows: every fitted row is projected and returned
projected_rows_all(query_vectors, all_vectors) == all_vectors

\* get_query_vectors_2d: the rows handed to pca.transform
projected_rows(query_vectors, all_vectors) == query_vectors

\* SessionManager.get_query_vectors_2d: the points it returns, and whether it
\* fitted a PCA; reference_vectors left out (None) or empty is NoVector
get_query_vectors_2d(session_id, reference_vectors) ==
    IF session_id \notin DOMAIN sessions \/ sessions[session_id].iterations = <<>>
    THEN [points |-> <<>>, fitted |-> FALSE]
    ELSE LET iterations    == sessions[session_id].iterations
             query_vectors == [i \in DOMAIN iterations |-> iterations[i].query_vector]
         IN  IF too_few_vectors(query_vectors)
             THEN [points |-> <<[x |-> 0, y |-> 0, iteration |-> 1]>>, fitted |-> FALSE]
             ELSE LET all_vectors == IF reference_vectors # NoVector
                                     THEN query_vectors \o reference_vectors
                                     ELSE query_vectors
                      pca         == pca_fit(all_vectors)
                      projected   == pca_transform(pca, projected_rows(query_vectors,
                                                                       all_vectors))
                  IN  [points |-> [i \in DOMAIN projected |->
                                      [x |-> projected[i][1], y |-> projected[i][2],
                                       iteration |-> i]],
                       fitted |-> TRUE]

-----------------------------------------------------------------------------
(* RocchioAlgorithm (app/rocchio.py); the weights are settings of app/config.py *)

\* 1.0
ROCCHIO_ALPHA == 100

\* 0.75
ROCCHIO_BETA == 75

\* 0.15
ROCCHIO_GAMMA == 15

\* mutant of refine_query: the division by the norm is not guarded
refine_query_unguarded(query_vector, relevant_vectors, non_relevant_vectors) ==
    LET weighted == Scaled(ROCCHIO_ALPHA, query_vector)
        plus     == IF Len(relevant_vectors) > 0
                    THEN VAdd(weighted, Scaled(ROCCHIO_BETA, Mean(relevant_vectors)))
                    ELSE weighted
        refined  == IF Len(non_relevant_vectors) > 0
                    THEN VSub(plus, Scaled(ROCCHIO_GAMMA, Mean(non_relevant_vectors)))
                    ELSE plus
    IN  Unit(refined)

\* mutant of refine_query: with no feedback at all the weighted query is
\* returned as it is, before the normalisation
refine_query_early_return(query_vector, relevant_vectors, non_relevant_vectors) ==
    LET weighted == Scaled(ROCCHIO_ALPHA, query_vector)
        plus     == IF Len(relevant_vectors) > 0
                    THEN VAdd(weighted, Scaled(ROCCHIO_BETA, Mean(relevant_vectors)))
                    ELSE weighted
        refined  == IF Len(non_relevant_vectors) > 0
                    THEN VSub(plus, Scaled(ROCCHIO_GAMMA, Mean(non_relevant_vectors)))
                    ELSE plus
    IN  IF Len(relevant_vectors) = 0 /\ Len(non_relevant_vectors) = 0 THEN weighted
        ELSE IF Norm(refined) > 0 THEN Unit(refined) ELSE refined

\* RocchioAlgorithm.refine_query; an empty list stands for None as well
refine_query(query_vector, relevant_vectors, non_relevant_vectors) ==
    LET weighted == Scaled(ROCCHIO_ALPHA, query_vector)
        plus     == IF Len(relevant_vectors) > 0
                    THEN VAdd(weighted, Scaled(ROCCHIO_BETA, Mean(relevant_vectors)))
                    ELSE weighted
        refined  == IF Len(non_relevant_vectors) > 0
                    THEN VSub(plus, Scaled(ROCCHIO_GAMMA, Mean(non_relevant_vectors)))
                    ELSE plus
    IN  IF Norm(refined) > 0 THEN Unit(refined) ELSE refined

\* mutant of assumed_relevant: one document short (top_vectors[:top_m - 1])
assumed_relevant_short(top_vectors, top_m) ==
    IF Len(top_vectors) >= top_m THEN SubSeq(top_vectors, 1, top_m - 1) ELSE top_vectors

\* the documents pseudo_relevance_feedback takes as relevant
assumed_relevant(top_vectors, top_m) ==
    IF Len(top_vectors) >= top_m THEN SubSeq(top_vectors, 1, top_m) ELSE top_vectors

\* RocchioAlgorithm.pseudo_relevance_feedback
rocchio_pseudo_relevance_feedback(query_vector, top_vectors, top_m) ==
    refine_query(query_vector, assumed_relevant(top_vectors, top_m), <<>>)

-----------------------------------------------------------------------------
(* QueryComposer (app/query_composer.py) *)

\* 0.5
additive_lambda == 50

\* 0.8
residual_strength == 80

\* QueryComposer._normalize
normalize(vector) == IF Norm(vector) > 0 THEN Unit(vector) ELSE vector

\* QueryComposer._additive_compose
additive_compose(query, text) == VAdd(query, Scaled(additive_lambda, text))

\* QueryComposer._residual_compose
residual_compose(query, text) ==
    LET projection == Scaled(Div(Dot(text, query), Scale), query)
        residual   == VSub(text, projection)
    IN  VAdd(query, Scaled(residual_strength, residual))

\* QueryComposer.compose with the two methods the handlers use
compose(query_vector, text_vector, method) ==
    LET query  == normalize(query_vector)
        text   == normalize(text_vector)
        result == IF method = "additive" THEN additive_compose(query, text)
                                         ELSE residual_compose(query, text)
    IN  normalize(result)

-----------------------------------------------------------------------------
(* State after construction *)

\* the event-loop tasks that serve requests at the same time
Tasks == {"t1", "t2"}

\* a task that serves no request
Idle == [op |-> "idle"]

\* VectorStore._load_or_create_index when no index file exists: a new empty index
CreatedIndex == [index |-> <<>>, metadata |-> [images |-> <<>>, id_to_idx |-> EmptyDict]]

\* VectorStore._load_or_create_index when an earlier run saved its index: here
\* the unit vectors a, b, c under the ids A, B, C
LoadedIndex ==
    [index    |-> <<<<Scale, 0>>, <<0, Scale>>, <<-Scale, 0>>>>,
     metadata |-> [images    |-> <<[image_id |-> "A", filename |-> "A", idx |-> 0],
                                   [image_id |-> "B", filename |-> "B", idx |-> 1],
                                   [image_id |-> "C", filename |-> "C", idx |-> 2]>>,
                   id_to_idx |-> [id \in Ids |-> CASE id = "A" -> 0
                                                    [] id = "B" -> 1
                                                    [] OTHER    -> 2]]]

\* the classes built as singletons
Classes == {"SessionManager", "VectorStore"}

\* the thread that imports the modules, and with them runs the module-level
\* `session_manager = SessionManager()` and `vector_store = VectorStore()`
MainThread == "MainThread"

\* the threads that call the constructors
Threads == {MainThread, "Thread-1"}

\* a thread that is in no constructor call
NoCall == [at |-> "idle", cls |-> None, self |-> 0]

\* the classes as their class statements leave them: _instance = None (0),
\* _lock free, no object made; objs[c][o] is the _initialized attribute of the
\* o-th object of class c ("unset" before the first assignment)
ClassDefined ==
    [instance |-> [c \in Classes |-> 0],
     objs     |-> [c \in Classes |-> <<>>],
     lock     |-> [c \in Classes |-> None],
     imported |-> [c \in Classes |-> FALSE],
     inits    |-> [c \in Classes |-> 0],
     pc       |-> [th \in Threads |-> NoCall]]

\* the classes once both modules are imported: one object each, initialised
Constructed ==
    [instance |-> [c \in Classes |-> 1],
     objs     |-> [c \in Classes |-> <<"True">>],
     lock     |-> [c \in Classes |-> None],
     imported |-> [c \in Classes |-> TRUE],
     inits    |-> [c \in Classes |-> 1],
     pc       |-> [th \in Threads |-> NoCall]]

\* the store starts empty
InitCreated ==
    /\ index = CreatedIndex.index
    /\ metadata = CreatedIndex.metadata
    /\ sessions = EmptyDict
    /\ resp = [op |-> "init"]
    /\ clock = 0
    /\ minted = {}
    /\ pending = [t \in Tasks |-> Idle]
    /\ ctor = Constructed

\* the store starts empty or loaded
Init ==
    /\ \E store \in {CreatedIndex, LoadedIndex} :
          /\ index = store.index
          /\ metadata = store.metadata
    /\ sessions = EmptyDict
    /\ resp = [op |-> "init"]
    /\ clock = 0
    /\ minted = {}
    /\ pending = [t \in Tasks |-> Idle]
    /\ ctor = Constructed

-----------------------------------------------------------------------------
(* Request handlers (app/main.py) *)

\* `if x:` on an optional string
Truthy(text) == text # None /\ text # ""

\* mutant of get_or_create_ids: an id that is not known is taken over for the
\* new session
get_or_create_ids_rebind(session_id) ==
    IF Truthy(session_id) /\ session_id \in SessionIds
    THEN {session_id}
    ELSE SessionIds \ minted

\* the ids get_or_create_session may answer with: the given one when it is
\* known, else a freshly minted one
get_or_create_ids(session_id) ==
    IF Truthy(session_id) /\ session_id \in DOMAIN sessions
    THEN {session_id}
    ELSE SessionIds \ minted

\* mutant of get_or_create_session: the session is set up anew even when it
\* exists
get_or_create_session_anew(new_id) == create_session(new_id)

\* SessionManager.get_or_create_session: the sessions once it answered new_id
get_or_create_session(new_id) ==
    IF new_id \in DOMAIN sessions THEN sessions ELSE create_session(new_id)

\* the ids of the items judged `kind`, in request order
feedback_ids(feedback_items, kind) ==
    LET picked == SelectSeq(feedback_items, LAMBDA f : f.feedback = kind)
    IN  [i \in DOMAIN picked |-> picked[i].image_id]

\* relevance_feedback: is there a document vector to feed Rocchio
has_image_feedback(positive_vectors, negative_vectors) ==
    Len(positive_vectors) > 0 \/ Len(negative_vectors) > 0

\* mutant of no_feedback: the text is only tested against None, so an empty
\* string counts as feedback
no_feedback_text_none(request) ==
    request.feedback_items = <<>> /\ request.text_feedback = None

\* relevance_feedback: the request carries no feedback at all
no_feedback(request) ==
    request.feedback_items = <<>> /\ ~Truthy(request.text_feedback)

\* mutant of text_method: the default method of the composer, whatever the round
text_method_default(image_feedback) == "residual"

\* relevance_feedback: the composition method for the text of a round
text_method(image_feedback) == IF image_feedback THEN "additive" ELSE "residual"

\* mutant of feedback_start: the vector of the first iteration (iterations[0])
feedback_start_first(session) == session.iterations[1].query_vector

\* relevance_feedback: the vector a round starts from
feedback_start(session) == current_query_vector(session)

\* relevance_feedback, steps 1 and 2: the refined query
feedback_refined_query(current_query, positive_vectors, negative_vectors, text_feedback) ==
    LET image_feedback == has_image_feedback(positive_vectors, negative_vectors)
        step1 == IF image_feedback
                 THEN refine_query(current_query, positive_vectors, negative_vectors)
                 ELSE current_query
    IN  IF Truthy(text_feedback)
        THEN compose(step1, encode_text(text_feedback), text_method(image_feedback))
        ELSE step1

\* mutant of feedback_record: the new iteration is appended before the back-fill
feedback_record_add_first(session_id, refined_query, image_ids, positive_ids, negative_ids, text_feedback) ==
    LET added == add_iteration(sessions, session_id, refined_query, "feedback", image_ids,
                               positive_ids, negative_ids, text_feedback)
    IN  update_last_iteration_feedback(added, session_id, positive_ids, negative_ids,
                                       text_feedback)

\* relevance_feedback: the session store after the round is recorded
feedback_record(session_id, refined_query, image_ids, positive_ids, negative_ids, text_feedback) ==
    LET updated == update_last_iteration_feedback(sessions, session_id, positive_ids,
                                                  negative_ids, text_feedback)
    IN  add_iteration(updated, session_id, refined_query, "feedback", image_ids,
                      positive_ids, negative_ids, text_feedback)

\* pseudo_relevance_feedback: the result ids whose vectors are looked up
pseudo_last_results(session, top_m) ==
    LET results == session.iterations[Len(session.iterations)].results
    IN  SubSeq(results, 1, Min(top_m, Len(results)))

\* mutant of no_top_vectors: the round goes on without a resolved vector
no_top_vectors_never(top_vectors) == FALSE

\* pseudo_relevance_feedback: `if len(top_vectors) == 0`
no_top_vectors(top_vectors) == Len(top_vectors) = 0

\* pseudo_relevance_feedback: the session store after the round is recorded
pseudo_record(session_id, refined_query, image_ids) ==
    add_iteration(sessions, session_id, refined_query, "pseudo_feedback", image_ids,
                  <<>>, <<>>, None)

\* the rounds recorded so far, over all sessions
RECURSIVE TotalIterations(_)
TotalIterations(sids) ==
    IF sids = {} THEN 0
    ELSE LET sid == CHOOSE x \in sids : TRUE
         IN  Len(sessions[sid].iterations) + TotalIterations(sids \ {sid})

RoomForRound == TotalIterations(DOMAIN sessions) < MaxRounds

HttpError(op, status, request) ==
    [op |-> op, status |-> status, request |-> request]

\* mutant of response_trajectory: the trajectory is read before the round is
\* recorded
response_trajectory_before(session_id) ==
    get_query_vectors_2d(session_id, NoVector).points

\* create_search_response: query_vectors, read from the session store after the
\* handler has recorded the iteration
response_trajectory(session_id) ==
    get_query_vectors_2d(session_id, NoVector)'.points

\* create_search_response
SearchResponse(op, request, session_id, iteration, result) ==
    [op |-> op, status |-> 200, request |-> request, session_id |-> session_id,
     iteration |-> iteration, image_ids |-> result.image_ids, scores |-> result.scores,
     query_vectors |-> response_trajectory(session_id)]

\* POST /search/text
search_by_text(request) ==
    /\ RoomForRound
    /\ \E session_id \in get_or_create_ids(request.session_id) :
          LET created      == get_or_create_session(session_id)
              query_vector == encode_text(request.query)
          IN  \E result \in search(query_vector, request.top_k) :
                /\ sessions' = add_iteration(created, session_id, query_vector, "text",
                                             result.image_ids, <<>>, <<>>, None)
                /\ resp' = SearchResponse("search_by_text", request, session_id,
                                          next_iteration_number(created[session_id]), result)
    /\ UNCHANGED <<index, metadata, clock, pending, ctor>>
    /\ minted' = minted \cup DOMAIN sessions'

\* the uploads whose content type is image/...
IsImage(file) == file \in Images

\* POST /search/image
search_by_image(request) ==
    /\ IF ~IsImage(request.image)
       THEN /\ resp' = HttpError("search_by_image", 400, request)
            /\ UNCHANGED sessions
       ELSE \E session_id \in get_or_create_ids(request.session_id) :
              LET created == get_or_create_session(session_id)
              IN  IF ~Decodable(request.image)
                  THEN \* encode_image raises after the session was resolved
                       /\ sessions' = created
                       /\ resp' = HttpError("search_by_image", 500, request)
                  ELSE LET query_vector == encode_image(request.image)
                       IN  /\ RoomForRound
                           /\ \E result \in search(query_vector, request.top_k) :
                                 /\ sessions' = add_iteration(created, session_id,
                                                     query_vector, "image",
                                                     result.image_ids, <<>>, <<>>, None)
                                 /\ resp' = SearchResponse("search_by_image", request,
                                                 session_id,
                                                 next_iteration_number(created[session_id]),
                                                 result)
    /\ UNCHANGED <<index, metadata, clock, pending, ctor>>
    /\ minted' = minted \cup DOMAIN sessions'

\* POST /feedback/relevance
relevance_feedback(request) ==
    /\ IF ~has_session(request.session_id)
       THEN /\ resp' = HttpError("relevance_feedback", 404, request)
            /\ UNCHANGED sessions
       ELSE IF current_query_vector(sessions[request.session_id]) = NoVector
       THEN /\ resp' = HttpError("relevance_feedback", 400, request)
            /\ UNCHANGED sessions
       ELSE IF no_feedback(request)
       THEN /\ resp' = HttpError("relevance_feedback", 400, request)
            /\ UNCHANGED sessions
       ELSE LET session          == sessions[request.session_id]
                positive_ids     == feedback_ids(request.feedback_items, "positive")
                negative_ids     == feedback_ids(request.feedback_items, "negative")
                positive_vectors == get_vectors(positive_ids)
                negative_vectors == get_vectors(negative_ids)
                refined_query    == feedback_refined_query(feedback_start(session),
                                        positive_vectors, negative_vectors,
                                        request.text_feedback)
            IN  /\ RoomForRound
                /\ \E result \in search(refined_query, request.top_k) :
                      /\ sessions' = feedback_record(request.session_id, refined_query,
                                                     result.image_ids, positive_ids,
                                                     negative_ids, request.text_feedback)
                      /\ resp' = SearchResponse("relevance_feedback", request,
                                                request.session_id,
                                                next_iteration_number(session), result)
    /\ UNCHANGED <<index, metadata, clock, minted, pending, ctor>>

\* POST /feedback/pseudo
pseudo_relevance_feedback(request) ==
    /\ IF ~has_session(request.session_id)
       THEN /\ resp' = HttpError("pseudo_relevance_feedback", 404, request)
            /\ UNCHANGED sessions
       ELSE IF current_query_vector(sessions[request.session_id]) = NoVector
       THEN /\ resp' = HttpError("pseudo_relevance_feedback", 400, request)
            /\ UNCHANGED sessions
       ELSE LET session     == sessions[request.session_id]
                top_vectors == get_vectors(pseudo_last_results(session, request.top_m))
            IN  IF no_top_vectors(top_vectors)
                THEN /\ resp' = HttpError("pseudo_relevance_feedback", 400, request)
                     /\ UNCHANGED sessions
                ELSE LET refined_query == rocchio_pseudo_relevance_feedback(
                                              current_query_vector(session), top_vectors,
                                              request.top_m)
                     IN  /\ RoomForRound
                         /\ \E result \in search(refined_query, request.top_k) :
                               /\ sessions' = pseudo_record(request.session_id,
                                                            refined_query, result.image_ids)
                               /\ resp' = SearchResponse("pseudo_relevance_feedback",
                                                         request, request.session_id,
                                                         next_iteration_number(session),
                                                         result)
    /\ UNCHANGED <<index, metadata, clock, minted, pending, ctor>>

\* the ids uuid4 may give an image uploaded without one
MintedImageIds == {"u1"}

\* POST /index/add
add_image_to_index(request) ==
    /\ IF ~IsImage(request.image)
       THEN /\ resp' = HttpError("add_image_to_index", 400, request)
            /\ UNCHANGED <<index, metadata>>
       ELSE IF ~Decodable(request.image)
       THEN \* encode_image raises before add_vectors is reached
            /\ resp' = HttpError("add_image_to_index", 500, request)
            /\ UNCHANGED <<index, metadata>>
       ELSE /\ ntotal < MaxUploads
            /\ \E image_id \in (IF Truthy(request.image_id) THEN {request.image_id}
                                  ELSE MintedImageIds \ DOMAIN metadata.id_to_idx) :
                  LET after == add_vectors(<<encode_image(request.image)>>, <<image_id>>,
                                           <<image_id>>)
                  IN  /\ index' = after.index
                      /\ metadata' = after.metadata
                      /\ resp' = [op |-> "add_image_to_index", status |-> 200,
                                  request |-> request, image_id |-> image_id,
                                  total_images |-> Len(after.index)]
    /\ UNCHANGED <<sessions, clock, minted, pending, ctor>>

-----------------------------------------------------------------------------
(* Spec: the service, one action per endpoint *)

Item(image_id, feedback) == [image_id |-> image_id, feedback |-> feedback]

\* the bodies a feedback round may carry: <<feedback_items, text_feedback>>
FeedbackBodies ==
    {<<<<>>, None>>,
     <<<<Item("A", "positive")>>, None>>,
     <<<<Item("B", "positive"), Item("A", "negative")>>, "blue">>,
     <<<<>>, "">>,
     <<<<>>, "blue">>,
     <<<<Item(UnknownId, "positive")>>, "blue">>}

TextRequests ==
    [query : {"red", "navy"}, top_k : {2}, session_id : DOMAIN sessions \cup {None}]

ImageRequests ==
    [image : {"imgB"}, top_k : {2}, session_id : DOMAIN sessions \cup {None}]
    \cup {[image |-> "notes.txt", top_k |-> 2, session_id |-> None],
          [image |-> "broken.png", top_k |-> 2, session_id |-> None]}

FeedbackRequests ==
    {[session_id |-> sid, feedback_items |-> body[1], text_feedback |-> body[2],
      top_k |-> 2] : sid \in DOMAIN sessions, body \in FeedbackBodies}
    \cup {[session_id |-> UnknownSession, feedback_items |-> <<Item("A", "positive")>>,
           text_feedback |-> None, top_k |-> 2]}

PseudoRequests ==
    [session_id : DOMAIN sessions, top_m : {1, 2}, top_k : {2}]
    \cup {[session_id |-> UnknownSession, top_m |-> 1, top_k |-> 2]}

IndexRequests ==
    {[image |-> "imgA", image_id |-> "A"], [image |-> "imgB", image_id |-> None],
     [image |-> "notes.txt", image_id |-> None],
     [image |-> "broken.png", image_id |-> None]}

Next ==
    \/ \E request \in TextRequests : search_by_text(request)
    \/ \E request \in ImageRequests : search_by_image(request)
    \/ \E request \in FeedbackRequests : relevance_feedback(request)
    \/ \E request \in PseudoRequests : pseudo_relevance_feedback(request)
    \/ \E request \in IndexRequests : add_image_to_index(request)

Spec == Init /\ [][Next]_vars

-----------------------------------------------------------------------------
(* SpecStore: the VectorStore API called directly *)

\* the non-empty lists over S of at most n elements
SeqsUpTo(S, n) == UNION {[1 .. m -> S] : m \in 1 .. n}

\* what a caller may insert under an id: two versions of each picture, as
\* <<id, vector>>; the vectors are not necessarily of unit length
Uploads == {<<"A", <<Scale, 0>>>>,     <<"A", <<0, 2 * Scale>>>>,
            <<"B", <<0, 2 * Scale>>>>, <<"B", <<-Scale, 0>>>>,
            <<"C", <<-Scale, 0>>>>,    <<"C", <<Scale, 0>>>>}

\* the batches a caller inserts: one or two uploads
Batches == SeqsUpTo(Uploads, 2)

BatchVectors(b) == [i \in DOMAIN b |-> b[i][2]]

BatchIds(b) == [i \in DOMAIN b |-> b[i][1]]

\* the id lists a caller looks up
Lookups == {<<"A">>, <<UnknownId>>, <<"A", "B">>, <<"B", "A">>, <<UnknownId, "C">>,
            <<"C", UnknownId>>, <<"A", "A">>}

\* the query vectors a caller searches with
QueryVecs == {<<Scale, 0>>, Unit(<<3, 4>>), <<0, -Scale>>}

TopKs == 1 .. 3

StoreAdd(vectors, image_ids) ==
    /\ ntotal + Len(vectors) <= MaxStore
    /\ LET after == add_vectors(vectors, image_ids, image_ids)
       IN  /\ index' = after.index
           /\ metadata' = after.metadata
    /\ resp' = [op |-> "add_vectors", vectors |-> vectors, image_ids |-> image_ids,
                status |-> "ok"]
    /\ UNCHANGED <<sessions, clock, minted, pending, ctor>>

StoreClear ==
    /\ index' = clear.index
    /\ metadata' = clear.metadata
    /\ resp' = [op |-> "clear", status |-> "ok",
                cleared |-> DOMAIN metadata.id_to_idx]
    /\ UNCHANGED <<sessions, clock, minted, pending, ctor>>

StoreSearch(query_vector, top_k) ==
    /\ \E result \in search(query_vector, top_k) :
          resp' = [op |-> "search", query_vector |-> query_vector, top_k |-> top_k,
                   status |-> "ok", result |-> result]
    /\ UNCHANGED <<index, metadata, sessions, clock, minted, pending, ctor>>

StoreGetVector(image_id) ==
    /\ resp' = [op |-> "get_vector", image_id |-> image_id, status |-> "ok",
                result |-> get_vector(image_id)]
    /\ UNCHANGED <<index, metadata, sessions, clock, minted, pending, ctor>>

StoreGetVectors(image_ids) ==
    /\ resp' = [op |-> "get_vectors", image_ids |-> image_ids, status |-> "ok",
                result |-> get_vectors(image_ids)]
    /\ UNCHANGED <<index, metadata, sessions, clock, minted, pending, ctor>>

NextStore ==
    \/ \E b \in Batches : StoreAdd(BatchVectors(b), BatchIds(b))
    \/ StoreClear
    \/ \E q \in QueryVecs, k \in TopKs : StoreSearch(q, k)
    \/ \E id \in Ids \cup {UnknownId} : StoreGetVector(id)
    \/ \E ids \in Lookups : StoreGetVectors(ids)

SpecStore == Init /\ [][NextStore]_vars

-----------------------------------------------------------------------------
(* Claims about the VectorStore, checked under SpecStore *)

\* some id of the batch is already stored, or occurs twice in the batch
HasDuplicateId(image_ids) ==
    \/ \E i \in DOMAIN image_ids : image_ids[i] \in DOMAIN metadata.id_to_idx
    \/ \E i, j \in DOMAIN image_ids : i < j /\ image_ids[i] = image_ids[j]

\* C3: an insert whose batch carries an id that is already stored, or the same
\* id twice, is rejected with an error and leaves the engine, the id-to-slot
\* map and the metadata list as they were.
C3_DuplicateInsertRejected ==
    [][(resp'.op = "add_vectors" /\ HasDuplicateId(resp'.image_ids))
         => (resp'.status = "error" /\ index' = index /\ metadata' = metadata)]_vars

\* C4: slot stability: when insert(batch2) follows insert(batch1), every id of
\* batch1 resolves to the same slot and the same vector after batch2 as before.
C4_SlotStability ==
    [][(resp.op = "add_vectors" /\ resp'.op = "add_vectors")
         => \A id \in Range(resp.image_ids) :
               /\ metadata'.id_to_idx[id] = metadata.id_to_idx[id]
               /\ get_vector(id)' = get_vector(id)]_vars

\* the id-to-slot map is a bijection between the stored ids and the slots 0..ntotal-1
SlotBijection ==
    /\ Cardinality(DOMAIN metadata.id_to_idx) = ntotal
    /\ \A id \in DOMAIN metadata.id_to_idx : metadata.id_to_idx[id] \in 0 .. (ntotal - 1)
    /\ \A a, b \in DOMAIN metadata.id_to_idx :
          metadata.id_to_idx[a] = metadata.id_to_idx[b] => a = b
    /\ \A s, t \in DOMAIN metadata.images :
          metadata.images[s].image_id = metadata.images[t].image_id => s = t

\* an insert assigns the slots from the engine count on, in input order, and
\* rebinds no id that was stored
AppendOnlySlots ==
    resp'.op = "add_vectors" =>
        /\ \A i \in DOMAIN resp'.image_ids :
              metadata'.id_to_idx[resp'.image_ids[i]] = ntotal + i - 1
        /\ \A id \in DOMAIN metadata.id_to_idx :
              metadata'.id_to_idx[id] = metadata.id_to_idx[id]

\* C5: between two clears the id-to-slot map is a bijection between the stored
\* ids and the slots 0..ntotal-1; slots are handed out in input order from the
\* engine count on, no slot passes to another id and no two slots carry one id.
C5_SlotBijection == [](SlotBijection) /\ [][AppendOnlySlots]_vars

NonIncreasing(scores) ==
    \A i, j \in DOMAIN scores : i < j => scores[i] >= scores[j]

ToyCollection ==
    /\ index = <<<<Scale, 0>>, <<0, Scale>>, <<-Scale, 0>>>>
    /\ [s \in DOMAIN metadata.images |-> metadata.images[s].image_id] = <<"A", "B", "C">>

\* C7: search(q, k) returns the k stored items of highest inner product with q:
\* each returned item is a stored slot reported under that slot's id with the
\* inner product of q and that slot's vector as its score, no slot is returned
\* twice, and no slot left out scores strictly higher than a returned one. With
\* a, b, c stored under A, B, C, search([1,0], 2) ranks A first with score 1.
C7_SearchTopK ==
    resp.op = "search" =>
        LET r     == resp.result
            q     == resp.query_vector
            slot(i) == r.metadata_list[i].idx
            hits  == {slot(i) : i \in DOMAIN r.metadata_list}
        IN  /\ \A i \in DOMAIN r.image_ids :
                  /\ slot(i) \in 0 .. (ntotal - 1)
                  /\ r.image_ids[i] = metadata.images[slot(i) + 1].image_id
                  /\ r.scores[i] = Dot(q, index[slot(i) + 1])
            /\ Cardinality(hits) = Len(r.image_ids)
            /\ \A s \in (0 .. (ntotal - 1)) \ hits : \A i \in DOMAIN r.scores :
                  Dot(q, index[s + 1]) <= r.scores[i]
            /\ (ToyCollection /\ q = <<Scale, 0>> /\ resp.top_k = 2)
                  => (r.image_ids[1] = "A" /\ r.scores[1] = Scale * Scale
                      /\ r.image_ids[2] \in {"B"} /\ r.scores[2] = 0)

\* the toy case: search([1,0], 2) on a, b, c
C7_Witness ==
    /\ resp.op = "search"
    /\ ToyCollection
    /\ resp.query_vector = <<Scale, 0>>
    /\ resp.top_k = 2
    /\ resp.result.image_ids = <<"A", "B">>

-----------------------------------------------------------------------------
(* SpecSession: the SessionManager API called directly *)

\* what a caller records: <<query_vector, query_type, results>>
RecordInputs == {<<<<Scale, 0>>, "text", <<"A", "B">>>>,
                 <<<<0, Scale>>, "feedback", <<>>>>}

\* the feedback a caller records or back-fills: <<positive, negative, text>>
FeedbackInputs == {<<<<>>, <<>>, None>>, <<<<"A">>, <<"B">>, "navy">>}

SessCreate ==
    \E new_id \in SessionIds \ minted :
        /\ sessions' = create_session(new_id)
        /\ resp' = [op |-> "create_session", session_id |-> new_id, status |-> "ok"]
        /\ UNCHANGED <<index, metadata, clock, pending, ctor>>
    /\ minted' = minted \cup DOMAIN sessions'

\* get_or_create_session(asked)
SessGetOrCreate(asked) ==
    \E new_id \in get_or_create_ids(asked) :
        /\ sessions' = get_or_create_session(new_id)
        /\ resp' = [op |-> "get_or_create_session", asked |-> asked,
                    session_id |-> new_id, status |-> "ok"]
        /\ UNCHANGED <<index, metadata, clock, pending, ctor>>
    /\ minted' = minted \cup DOMAIN sessions'

\* add_iteration(session_id, rec, fb); the caller keeps the array it passed
SessAddIteration(session_id, rec, fb) ==
    LET call == add_iteration_call(sessions, session_id, rec[1], rec[2], rec[3],
                                   fb[1], fb[2], fb[3])
    IN  /\ has_session(session_id) => TotalIterations(DOMAIN sessions) < MaxIter
        /\ sessions' = call.sessions
        /\ resp' = [op |-> "add_iteration", session_id |-> session_id,
                    status |-> IF call.raised = None THEN "ok" ELSE call.raised,
                    iteration |-> call.iteration,
                    caller_vector |-> rec[1], aliases |-> call.aliases]
        /\ UNCHANGED <<index, metadata, clock, minted, pending, ctor>>

\* the caller of the last add_iteration overwrites the array it passed with v:
\* whatever shares its memory changes with it
SessCallerMutates(v) ==
    /\ resp.op \in {"add_iteration", "caller_mutates"}
    /\ resp.status = "ok"
    /\ v # resp.caller_vector
    /\ sessions' = [sid \in DOMAIN sessions |->
                      [sessions[sid] EXCEPT !.iterations =
                          [i \in DOMAIN @ |->
                              IF <<sid, i>> \in resp.aliases
                              THEN [@[i] EXCEPT !.query_vector = v]
                              ELSE @[i]]]]
    /\ resp' = [resp EXCEPT !.op = "caller_mutates", !.caller_vector = v]
    /\ UNCHANGED <<index, metadata, clock, minted, pending, ctor>>

\* update_last_iteration_feedback(session_id, fb)
SessUpdateFeedback(session_id, fb) ==
    /\ sessions' = update_last_iteration_feedback(sessions, session_id, fb[1], fb[2], fb[3])
    /\ resp' = [op |-> "update_last_iteration_feedback", session_id |-> session_id,
                feedback |-> fb, status |-> "ok"]
    /\ UNCHANGED <<index, metadata, clock, minted, pending, ctor>>

\* get_query_vectors_2d(session_id, reference_vectors)
SessProject(session_id, reference_vectors) ==
    LET out == get_query_vectors_2d(session_id, reference_vectors)
    IN  /\ resp' = [op |-> "get_query_vectors_2d", session_id |-> session_id,
                    reference_vectors |-> reference_vectors, result |-> out.points,
                    fitted |-> out.fitted, status |-> "ok"]
        /\ UNCHANGED <<index, metadata, sessions, clock, minted, pending, ctor>>

\* the corpus vectors a caller hands over for the fit: none, or two of them
ReferenceVectors == {NoVector, <<<<0, Scale>>, <<-Scale, 0>>>>}

\* the ids a caller asks get_or_create_session for
AskedIds == SessionIds \cup {None, "", UnknownSession}

\* the values a caller writes into its array
CallerVectors == {<<Scale, 0>>, <<0, Scale>>}

NextSession ==
    \/ SessCreate
    \/ \E asked \in AskedIds : SessGetOrCreate(asked)
    \/ \E sid \in SessionIds \cup {UnknownSession}, rec \in RecordInputs,
          fb \in FeedbackInputs : SessAddIteration(sid, rec, fb)
    \/ \E v \in CallerVectors : SessCallerMutates(v)
    \/ \E sid \in SessionIds \cup {UnknownSession}, fb \in FeedbackInputs :
          SessUpdateFeedback(sid, fb)
    \/ \E sid \in SessionIds \cup {UnknownSession}, refs \in ReferenceVectors :
          SessProject(sid, refs)

SpecSession == InitCreated /\ [][NextSession]_vars

-----------------------------------------------------------------------------
(* Claims about the SessionManager, checked under SpecSession *)

ContiguousIndexes ==
    \A sid \in DOMAIN sessions :
        \A i \in DOMAIN sessions[sid].iterations :
            sessions[sid].iterations[i].iteration = i

BackfillKeepsLength ==
    resp'.op = "update_last_iteration_feedback" =>
        /\ DOMAIN sessions' = DOMAIN sessions
        /\ \A sid \in DOMAIN sessions :
              Len(sessions'[sid].iterations) = Len(sessions[sid].iterations)

\* C1: after any sequence of add_iteration and update_last_iteration_feedback
\* calls the i-th stored iteration of every session (counting from 1) carries
\* the number i, and update_last_iteration_feedback never changes the number of
\* iterations of any session.
C1_IterationIndex == [](ContiguousIndexes) /\ [][BackfillKeepsLength]_vars

\* a back-fill has just acted on a session that holds three iterations
C1_Witness ==
    /\ resp.op = "update_last_iteration_feedback"
    /\ resp.session_id \in DOMAIN sessions
    /\ Len(sessions[resp.session_id].iterations) = 3
    /\ sessions[resp.session_id].iterations[3].positive_feedback = <<"A">>
    /\ sessions[resp.session_id].iterations[2].positive_feedback = <<>>

-----------------------------------------------------------------------------
(* Claims about the feedback rounds, checked under Spec *)

\* the last call was a round of kind op that succeeded
RoundDone(r, op) == r.op = op /\ r.status = 200

\* the iterations of the session the last call answered for
RoundIterations == sessions[resp.session_id].iterations

\* the feedback of the round that was just answered
RoundPositiveIds == feedback_ids(resp.request.feedback_items, "positive")

RoundNegativeIds == feedback_ids(resp.request.feedback_items, "negative")

\* the first min(m, len(results)) result ids of an iteration
TopResults(iteration, m) ==
    SubSeq(iteration.results, 1, Min(m, Len(iteration.results)))

\* the original statement of C2: after every successful explicit or pseudo round
\* that records iteration N+1, iteration N carries the feedback of that round
\* (for a pseudo round: nothing, or the ids taken as relevant).
C2_BackfillAfterEveryRound ==
    (RoundDone(resp, "relevance_feedback") \/ RoundDone(resp, "pseudo_relevance_feedback")) =>
        LET prev == RoundIterations[resp.iteration - 1]
        IN  IF resp.op = "relevance_feedback"
            THEN /\ prev.positive_feedback = RoundPositiveIds
                 /\ prev.negative_feedback = RoundNegativeIds
                 /\ prev.text_feedback = resp.request.text_feedback
            ELSE /\ prev.positive_feedback \in {<<>>, TopResults(prev, resp.request.top_m)}
                 /\ prev.negative_feedback = <<>>
                 /\ prev.text_feedback = None

ExplicitRoundBackfills ==
    RoundDone(resp', "relevance_feedback") =>
        LET sid    == resp'.session_id
            before == sessions[sid].iterations
            after  == sessions'[sid].iterations
            n      == Len(before)
            pos    == feedback_ids(resp'.request.feedback_items, "positive")
            neg    == feedback_ids(resp'.request.feedback_items, "negative")
        IN  /\ Len(after) = n + 1
            /\ resp'.iteration = n + 1
            /\ after[n] = [before[n] EXCEPT !.positive_feedback = pos,
                                            !.negative_feedback = neg,
                                            !.text_feedback = resp'.request.text_feedback]
            /\ \A i \in 1 .. (n - 1) : after[i] = before[i]
            /\ after[n + 1].positive_feedback = pos
            /\ after[n + 1].negative_feedback = neg
            /\ after[n + 1].text_feedback = resp'.request.text_feedback

PseudoRoundBackfillsNothing ==
    RoundDone(resp', "pseudo_relevance_feedback") =>
        LET sid    == resp'.session_id
            before == sessions[sid].iterations
            after  == sessions'[sid].iterations
            n      == Len(before)
        IN  /\ Len(after) = n + 1
            /\ resp'.iteration = n + 1
            /\ SubSeq(after, 1, n) = before
            /\ after[n + 1].positive_feedback = <<>>
            /\ after[n + 1].negative_feedback = <<>>
            /\ after[n + 1].text_feedback = None

\* C2 (amended): a successful explicit-feedback round that records iteration N+1
\* back-fills iteration N, and no other, with the feedback of the round; N+1
\* gets that feedback from add_iteration itself. A successful pseudo-feedback
\* round back-fills nothing: iterations 1..N are as they were and N+1 carries
\* no feedback.
C2_ExplicitRoundBackfillsPrevious ==
    [][ExplicitRoundBackfills /\ PseudoRoundBackfillsNothing]_vars

\* an explicit round has back-filled a second iteration that itself came from a
\* feedback round, and a pseudo round has left a back-filled iteration alone
C2_Witness ==
    /\ RoundDone(resp, "pseudo_relevance_feedback")
    /\ resp.iteration = 3
    /\ RoundIterations[2].query_type = "feedback"
    /\ RoundIterations[2].negative_feedback = <<"A">>
    /\ RoundIterations[1].positive_feedback = <<"B">>

\* the vectors the feedback ids of the round resolve to
RoundPositiveVectors == get_vectors(RoundPositiveIds)

RoundNegativeVectors == get_vectors(RoundNegativeIds)

\* the query a round started from and the one it recorded
RoundPrevQuery == RoundIterations[resp.iteration - 1].query_vector

RoundNewQuery == RoundIterations[resp.iteration].query_vector

\* the original statement of C8: document feedback is a non-empty id set
C8_PolicyByIdSets ==
    (RoundDone(resp, "relevance_feedback") /\ Truthy(resp.request.text_feedback)) =>
        LET text == encode_text(resp.request.text_feedback)
        IN  IF RoundPositiveIds # <<>> \/ RoundNegativeIds # <<>>
            THEN RoundNewQuery =
                    compose(refine_query(RoundPrevQuery, RoundPositiveVectors,
                                         RoundNegativeVectors), text, "additive")
            ELSE RoundNewQuery = compose(RoundPrevQuery, text, "residual")

\* C8 (amended): a feedback round with text feedback in which at least one
\* positive or negative id resolves to a stored vector applies Rocchio to the
\* prior query and layers the text on the result with the additive method; a
\* round with text feedback in which no id resolves (no items, or only unknown
\* ids) applies the residual method to the prior query and does not run Rocchio.
C8_CompositionPolicy ==
    (RoundDone(resp, "relevance_feedback") /\ Truthy(resp.request.text_feedback)) =>
        LET text == encode_text(resp.request.text_feedback)
        IN  IF Len(RoundPositiveVectors) > 0 \/ Len(RoundNegativeVectors) > 0
            THEN RoundNewQuery =
                    compose(refine_query(RoundPrevQuery, RoundPositiveVectors,
                                         RoundNegativeVectors), text, "additive")
            ELSE RoundNewQuery = compose(RoundPrevQuery, text, "residual")

\* a round with a positive, a negative and a text feedback, all resolved
C8_Witness ==
    /\ RoundDone(resp, "relevance_feedback")
    /\ resp.request.text_feedback = "blue"
    /\ Len(RoundPositiveVectors) = 1
    /\ Len(RoundNegativeVectors) = 1
    /\ RoundNewQuery # compose(RoundPrevQuery, encode_text("blue"), "residual")

\* C9: a successful pseudo round with parameter m on a session whose last
\* iteration has query vector q and result ids r records an iteration whose
\* query vector is refine_query(q, V, none), V the vectors of the first
\* min(m, len(r)) ids of r; after one text iteration and m = 1 that is
\* refine_query(original query, [vector of the top result], none).
C9_PseudoRefine ==
    RoundDone(resp, "pseudo_relevance_feedback") =>
        LET prev == RoundIterations[resp.iteration - 1]
            m    == resp.request.top_m
        IN  /\ resp.iteration = Len(RoundIterations)
            /\ RoundIterations[resp.iteration].query_type = "pseudo_feedback"
            /\ RoundNewQuery =
                  refine_query(prev.query_vector, get_vectors(TopResults(prev, m)), <<>>)
            /\ (resp.iteration = 2 /\ prev.query_type = "text" /\ m = 1) =>
                  RoundNewQuery =
                      refine_query(prev.query_vector, <<get_vector(prev.results[1])>>, <<>>)

\* one text iteration, then a pseudo round with m = 1 that moved the query
C9_Witness ==
    /\ RoundDone(resp, "pseudo_relevance_feedback")
    /\ resp.iteration = 2
    /\ resp.request.top_m = 1
    /\ RoundIterations[1].query_type = "text"
    /\ RoundNewQuery # RoundIterations[1].query_vector

\* C10: an explicit feedback round refines the query vector of the session's
\* last iteration at the time of the round, not an earlier one, and the
\* iteration it records becomes the session's current query vector.
C10_StartsFromCurrentQuery ==
    RoundDone(resp, "relevance_feedback") =>
        /\ resp.iteration = Len(RoundIterations)
        /\ RoundNewQuery =
              feedback_refined_query(RoundPrevQuery, RoundPositiveVectors,
                                     RoundNegativeVectors, resp.request.text_feedback)
        /\ current_query_vector(sessions[resp.session_id]) = RoundNewQuery

\* a third iteration recorded by a feedback round whose result would have been
\* another had it started from the first iteration's vector
C10_Witness ==
    /\ RoundDone(resp, "relevance_feedback")
    /\ resp.iteration = 3
    /\ RoundIterations[2].query_vector # RoundIterations[1].query_vector
    /\ RoundNewQuery #
          feedback_refined_query(RoundIterations[1].query_vector, RoundPositiveVectors,
                                 RoundNegativeVectors, resp.request.text_feedback)

-----------------------------------------------------------------------------
(* Claims about rejected requests, checked under Spec *)

\* the round asked for by request r names a session that does not exist
RoundOnUnknownSession(r) == r.session_id \notin DOMAIN sessions

\* the round asked for by request r names a session that holds no iteration yet
RoundWithoutPrior(r) ==
    /\ r.session_id \in DOMAIN sessions
    /\ sessions[r.session_id].iterations = <<>>

\* the explicit round asked for by request r carries no item and no text
RoundWithoutFeedback(r) ==
    /\ r.feedback_items = <<>>
    /\ r.text_feedback \in {None, ""}

ExplicitRoundRejected ==
    resp'.op = "relevance_feedback" =>
        /\ RoundOnUnknownSession(resp'.request) =>
              resp'.status = 404 /\ sessions' = sessions
        /\ RoundWithoutPrior(resp'.request) =>
              resp'.status = 400 /\ sessions' = sessions
        /\ RoundWithoutFeedback(resp'.request) =>
              resp'.status \in {400, 404} /\ sessions' = sessions

PseudoRoundRejected ==
    resp'.op = "pseudo_relevance_feedback" =>
        /\ RoundOnUnknownSession(resp'.request) =>
              resp'.status = 404 /\ sessions' = sessions
        /\ RoundWithoutPrior(resp'.request) =>
              resp'.status = 400 /\ sessions' = sessions

\* C11: an explicit-feedback round is answered with an error and records no
\* iteration when its session is unknown (404), when its session holds no
\* iteration yet (400) and when it carries neither feedback items nor text
\* (400); a pseudo-feedback round likewise when its session is unknown or
\* holds no iteration yet.
C11_RoundRejected == [][ExplicitRoundRejected /\ PseudoRoundRejected]_vars

\* an explicit round with feedback items was refused on a session that exists
\* and holds no iteration
C11_Witness ==
    /\ resp.op = "relevance_feedback"
    /\ resp.status = 400
    /\ resp.request.feedback_items # <<>>
    /\ resp.request.session_id \in DOMAIN sessions
    /\ sessions[resp.request.session_id].iterations = <<>>

\* C12: a request that ends in an error leaves the sessions and the vector
\* store as they were: no session is created, no iteration is appended or
\* back-filled, no vector or metadata entry is added.
C12_ErrorLeavesStateUnchanged ==
    [][resp'.status # 200 =>
          /\ sessions' = sessions
          /\ index' = index
          /\ metadata' = metadata]_vars

-----------------------------------------------------------------------------
(* Claims about unknown image ids, checked under Spec *)

\* the stored vectors of those ids of the list that the store knows, in the
\* order of the list
StoredVectorsOf(ids) ==
    LET known == SelectSeq(ids, LAMBDA id : id \in DOMAIN metadata.id_to_idx)
    IN  [i \in DOMAIN known |-> index[metadata.id_to_idx[known[i]] + 1]]

\* get_vectors skips the ids it does not find and keeps the order of the rest
LookupSkipsUnknown ==
    \A ids \in Lookups :
        /\ get_vectors(ids) = StoredVectorsOf(ids)
        /\ Len(get_vectors(ids)) <= Len(ids)

\* an explicit round is refused for no other reason than an unknown session, a
\* session without iteration or a request without feedback
RefusedForKnownReason ==
    (resp.op = "relevance_feedback" /\ resp.status # 200) =>
        \/ RoundOnUnknownSession(resp.request)
        \/ RoundWithoutPrior(resp.request)
        \/ RoundWithoutFeedback(resp.request)

\* the query an explicit round records is computed from the vectors of the
\* known ids alone
RefinedFromResolved ==
    RoundDone(resp, "relevance_feedback") =>
        LET pos   == StoredVectorsOf(RoundPositiveIds)
            neg   == StoredVectorsOf(RoundNegativeIds)
            docs  == Len(pos) > 0 \/ Len(neg) > 0
            step1 == IF docs THEN refine_query(RoundPrevQuery, pos, neg)
                             ELSE RoundPrevQuery
        IN  RoundNewQuery =
                IF Truthy(resp.request.text_feedback)
                THEN compose(step1, encode_text(resp.request.text_feedback),
                             IF docs THEN "additive" ELSE "residual")
                ELSE step1

\* C13: get_vectors returns, in request order, the stored vectors of exactly the
\* requested ids that exist and skips the others without error, so it returns
\* at most as many vectors as ids were asked; an explicit-feedback round that
\* names unknown image ids is not refused for that and refines the query with
\* the resolved vectors only.
C13_UnknownIdsSkipped ==
    /\ LookupSkipsUnknown
    /\ RefusedForKnownReason
    /\ RefinedFromResolved

\* a round whose positive id is unknown and whose negative id is stored was
\* accepted
C13_Witness ==
    /\ RoundDone(resp, "relevance_feedback")
    /\ RoundPositiveIds = <<"B">>
    /\ RoundNegativeIds = <<"A">>
    /\ "B" \notin DOMAIN metadata.id_to_idx
    /\ "A" \in DOMAIN metadata.id_to_idx
    /\ RoundNewQuery # RoundPrevQuery

-----------------------------------------------------------------------------
(* Claims about sessions and their iterations, checked under SpecSession *)

\* what one get_or_create_session call does
GetOrCreateStep ==
    resp'.op = "get_or_create_session" =>
        LET asked == resp'.asked
            got   == resp'.session_id
        IN  IF asked \notin {None, ""} /\ asked \in DOMAIN sessions
            THEN /\ got = asked
                 /\ sessions' = sessions
            ELSE /\ got \notin DOMAIN sessions
                 /\ DOMAIN sessions' = DOMAIN sessions \cup {got}
                 /\ sessions'[got].iterations = <<>>
                 /\ \A sid \in DOMAIN sessions : sessions'[sid] = sessions[sid]

\* C14: get_or_create_session(id) with a known id returns that id and modifies
\* no session; with no id or an unknown id it returns a newly minted id that no
\* existing session has, bound to a session without iterations, and no
\* existing session is modified or replaced.
C14_GetOrCreate == [][GetOrCreateStep]_vars

\* get_or_create_session was asked for an unknown id while a session with
\* iterations exists: it minted another session, empty
C14_Witness ==
    /\ resp.op = "get_or_create_session"
    /\ resp.asked = UnknownSession
    /\ resp.session_id = "s2"
    /\ DOMAIN sessions = {"s1", "s2"}
    /\ sessions["s1"].iterations # <<>>
    /\ sessions["s2"].iterations = <<>>

\* what add_iteration does when no session has the id
AddIterationToUnknownSession ==
    (resp'.op = "add_iteration" /\ resp'.session_id \notin DOMAIN sessions) =>
        /\ resp'.status = "ValueError"
        /\ sessions' = sessions

\* C15: add_iteration with an unknown session id fails with a not-found error
\* (ValueError) and changes nothing: no session is created and no iteration is
\* appended to any session.
C15_AddIterationUnknownSession == [][AddIterationToUnknownSession]_vars

\* add_iteration was refused while another session holds an iteration
C15_Witness ==
    /\ resp.op = "add_iteration"
    /\ resp.status = "ValueError"
    /\ resp.session_id \notin DOMAIN sessions
    /\ \E sid \in DOMAIN sessions : Len(sessions[sid].iterations) = 1

\* the fields of an iteration that are fixed when it is recorded
RecordedFields(it) == <<it.iteration, it.query_vector, it.query_type, it.results>>

\* every iteration that exists keeps its recorded fields in the next state
RecordedFieldsKept ==
    \A sid \in DOMAIN sessions :
        sid \in DOMAIN sessions' =>
            \A i \in DOMAIN sessions[sid].iterations :
                /\ i \in DOMAIN sessions'[sid].iterations
                /\ RecordedFields(sessions'[sid].iterations[i]) =
                       RecordedFields(sessions[sid].iterations[i])

\* C16: once an iteration is recorded, its index, query vector, source kind
\* and result ids never change, whatever is recorded or back-filled later and
\* whatever the caller writes afterwards into the vector it passed:
\* add_iteration stores a copy of the query vector.
C16_RecordedFieldsImmutable == [][RecordedFieldsKept]_vars

\* the caller overwrote the array it had passed for the second iteration of a
\* session, and the stored vector still is the one that was recorded
C16_Witness ==
    /\ resp.op = "caller_mutates"
    /\ resp.session_id \in DOMAIN sessions
    /\ resp.iteration = 2
    /\ Len(sessions[resp.session_id].iterations) = 2
    /\ resp.caller_vector = <<0, Scale>>
    /\ sessions[resp.session_id].iterations[2].query_vector = <<Scale, 0>>

\* what one update_last_iteration_feedback call changes
BackfillStep ==
    resp'.op = "update_last_iteration_feedback" =>
        LET sid == resp'.session_id
            fb  == resp'.feedback
        IN  IF sid \in DOMAIN sessions /\ sessions[sid].iterations # <<>>
            THEN LET n      == Len(sessions[sid].iterations)
                     before == sessions[sid].iterations
                     after  == sessions'[sid].iterations
                 IN  /\ DOMAIN sessions' = DOMAIN sessions
                     /\ \A other \in DOMAIN sessions \ {sid} :
                           sessions'[other] = sessions[other]
                     /\ sessions'[sid].session_id = sessions[sid].session_id
                     /\ sessions'[sid].created_at = sessions[sid].created_at
                     /\ Len(after) = n
                     /\ \A i \in 1 .. n - 1 : after[i] = before[i]
                     /\ RecordedFields(after[n]) = RecordedFields(before[n])
                     /\ after[n].positive_feedback = fb[1]
                     /\ after[n].negative_feedback = fb[2]
                     /\ after[n].text_feedback = fb[3]
            ELSE sessions' = sessions

\* C18: update_last_iteration_feedback changes only the three feedback fields
\* of the last iteration of the session it names: every other iteration, every
\* other field of the last iteration and every other session stay as they were,
\* and the call changes nothing when the session holds no iteration.
C18_BackfillFrame == [][BackfillStep]_vars

\* a back-fill emptied the feedback of the second iteration of a session whose
\* first iteration keeps its own
C18_Witness ==
    /\ resp.op = "update_last_iteration_feedback"
    /\ resp.feedback = <<<<>>, <<>>, None>>
    /\ resp.session_id \in DOMAIN sessions
    /\ Len(sessions[resp.session_id].iterations) = 2
    /\ sessions[resp.session_id].iterations[1].positive_feedback = <<"A">>
    /\ sessions[resp.session_id].iterations[2].positive_feedback = <<>>
    /\ sessions[resp.session_id].iterations[2].text_feedback = None

-----------------------------------------------------------------------------
(* Claims about the back-fill of feedback in the rounds, checked under Spec *)

\* the fields of an iteration that a back-fill may write
FeedbackFields(it) == <<it.positive_feedback, it.negative_feedback, it.text_feedback>>

\* iterations are only ever appended, and the feedback of an iteration changes
\* only in the step of the explicit round that records the next one
BackfillOnlyByNextRound ==
    \A sid \in DOMAIN sessions :
        /\ sid \in DOMAIN sessions'
        /\ Len(sessions'[sid].iterations) >= Len(sessions[sid].iterations)
        /\ \A i \in DOMAIN sessions[sid].iterations :
              FeedbackFields(sessions'[sid].iterations[i]) #
                  FeedbackFields(sessions[sid].iterations[i]) =>
                      /\ i = Len(sessions[sid].iterations)
                      /\ Len(sessions'[sid].iterations) = i + 1
                      /\ RoundDone(resp', "relevance_feedback")
                      /\ resp'.session_id = sid
                      /\ resp'.iteration = i + 1

\* C17: in any sequence of rounds on a session, the feedback fields of an
\* iteration N are modified after its creation at most once, and only by the
\* round that records iteration N+1: no round modifies the feedback of an
\* iteration older than the last one.
C17_BackfillOnce == [][BackfillOnlyByNextRound]_vars

\* the third round of a session rewrote the feedback the second iteration was
\* recorded with; the first iteration keeps what the second round gave it
C17_Witness ==
    /\ RoundDone(resp, "relevance_feedback")
    /\ resp.iteration = 3
    /\ Len(RoundIterations) = 3
    /\ RoundIterations[1].positive_feedback = <<"A">>
    /\ RoundIterations[1].text_feedback = None
    /\ RoundIterations[2].query_type = "feedback"
    /\ RoundIterations[2].positive_feedback = <<>>
    /\ RoundIterations[2].text_feedback = "blue"

-----------------------------------------------------------------------------
(* SpecReap: the SessionManager API while time passes.  The clock counts whole *)
(* hours; Spec and SpecSession never read created_at, and no time passes there. *)

\* an hour passes
ReapTick ==
    /\ clock < MaxClock
    /\ clock' = clock + 1
    /\ UNCHANGED <<index, metadata, sessions, resp, minted, pending, ctor>>

\* get_session(session_id)
ReapGetSession(session_id) ==
    /\ resp' = [op |-> "get_session", session_id |-> session_id, status |-> "ok",
                result |-> get_session(session_id)]
    /\ UNCHANGED <<index, metadata, sessions, clock, minted, pending, ctor>>

\* cleanup_old_sessions(max_age_hours)
ReapCleanup(max_age_hours) ==
    /\ sessions' = cleanup_old_sessions(max_age_hours)
    /\ resp' = [op |-> "cleanup_old_sessions", max_age_hours |-> max_age_hours,
                now |-> clock, removed |-> to_remove(clock, max_age_hours),
                status |-> "ok"]
    /\ UNCHANGED <<index, metadata, clock, minted, pending, ctor>>

\* the thresholds a caller sweeps with
MaxAges == {0, 1}

\* what a caller records in the sessions that are swept
ReapRecords == {<<<<Scale, 0>>, "text", <<"A", "B">>>>}

ReapFeedback == {<<<<>>, <<>>, None>>}

NextReap ==
    \/ ReapTick
    \/ SessCreate
    \/ \E asked \in AskedIds : SessGetOrCreate(asked)
    \/ \E sid \in SessionIds, rec \in ReapRecords, fb \in ReapFeedback :
          SessAddIteration(sid, rec, fb)
    \/ \E sid \in SessionIds \cup {UnknownSession} : ReapGetSession(sid)
    \/ \E h \in MaxAges : ReapCleanup(h)

SpecReap == InitCreated /\ [][NextReap]_vars

-----------------------------------------------------------------------------
(* Claims about the sweep of old sessions, checked under SpecReap *)

\* get_session finds a session exactly when the id is held
GetSessionFindsHeld ==
    resp.op = "get_session" =>
        (resp.result = <<>> <=> resp.session_id \notin DOMAIN sessions)

\* the original statement of C19: a sweep with max_age_hours = 0 leaves no
\* session behind, whenever the sessions were created
C19_SweepZeroRemovesAll ==
    [][(resp'.op = "cleanup_old_sessions" /\ resp'.max_age_hours = 0) =>
          DOMAIN sessions' = {}]_vars

\* a sweep with max_age_hours = 0 removes the sessions created before the
\* clock reading of the sweep and keeps those created at that reading
SweepZeroStep ==
    (resp'.op = "cleanup_old_sessions" /\ resp'.max_age_hours = 0) =>
        \A sid \in DOMAIN sessions :
            IF sessions[sid].created_at < resp'.now
            THEN sid \notin DOMAIN sessions'
            ELSE sid \in DOMAIN sessions' /\ sessions'[sid] = sessions[sid]

\* C19 (amended): a sweep with max_age_hours = 0 deletes every session created
\* strictly before the clock reading of the sweep, and get_session then finds
\* none of them; a session created at the very clock reading of the sweep is
\* kept.
C19_SweepZero == [](GetSessionFindsHeld) /\ [][SweepZeroStep]_vars

\* a sweep with max_age_hours = 0 removed the session created an hour ago and
\* kept the one created at the reading of the sweep
C19_Witness ==
    /\ resp.op = "cleanup_old_sessions"
    /\ resp.max_age_hours = 0
    /\ resp.now = 1
    /\ resp.removed = {"s1"}
    /\ DOMAIN sessions = {"s2"}
    /\ sessions["s2"].created_at = 1

\* what one sweep removes and what it leaves
SweepStep ==
    resp'.op = "cleanup_old_sessions" =>
        LET old == {sid \in DOMAIN sessions :
                       resp'.now - sessions[sid].created_at > resp'.max_age_hours}
        IN  /\ DOMAIN sessions' = DOMAIN sessions \ old
            /\ \A sid \in DOMAIN sessions' : sessions'[sid] = sessions[sid]

\* C20: cleanup_old_sessions(max_age_hours) removes exactly the sessions whose
\* age, the clock reading minus created_at, exceeds the threshold, each with
\* all its iterations in one step, and leaves every other session and its
\* iterations unchanged.
C20_SweepRemovesExactlyOld == [][SweepStep]_vars

\* a sweep with max_age_hours = 1 removed a session two hours old and kept,
\* with its iterations, a session exactly one hour old
C20_Witness ==
    /\ resp.op = "cleanup_old_sessions"
    /\ resp.max_age_hours = 1
    /\ resp.now = 2
    /\ resp.removed = {"s1"}
    /\ DOMAIN sessions = {"s2"}
    /\ sessions["s2"].created_at = 1
    /\ Len(sessions["s2"].iterations) = 2

-----------------------------------------------------------------------------
(* The life of a session, checked under SpecReap *)

\* what one step does to the sessions: a session is born empty under an id never
\* given out before, a session that stays gains at most the one iteration an
\* add_iteration records for it, and a session goes only in a sweep
SessionLifeStep ==
    /\ \A sid \in DOMAIN sessions' \ DOMAIN sessions :
          /\ sid \notin minted
          /\ sessions'[sid].iterations = <<>>
    /\ \A sid \in DOMAIN sessions \cap DOMAIN sessions' :
          LET before == sessions[sid].iterations
              after  == sessions'[sid].iterations
          IN  \/ after = before
              \/ /\ Len(after) = Len(before) + 1
                 /\ SubSeq(after, 1, Len(before)) = before
                 /\ resp'.op = "add_iteration"
                 /\ resp'.session_id = sid
    /\ \A sid \in DOMAIN sessions \ DOMAIN sessions' :
          /\ resp'.op = "cleanup_old_sessions"
          /\ sid \in resp'.removed

\* get_or_create_session asked for an id that was swept away answers with
\* another id, never given out before, whose session is empty
ExpiredIdAsked ==
    (/\ resp' # resp
     /\ resp'.op = "get_or_create_session"
     /\ resp'.asked \in minted \ DOMAIN sessions) =>
        /\ resp'.session_id # resp'.asked
        /\ resp'.session_id \notin minted
        /\ resp'.asked \notin DOMAIN sessions'
        /\ sessions'[resp'.session_id].iterations = <<>>

\* C21: a session starts with no iteration, its iterations grow only by the one
\* an add_iteration appends, and it leaves the store only in a sweep; an id that
\* was swept away is never held again, and get_or_create_session asked for it
\* answers with a different, new and empty session.
C21_SessionLife ==
    [](DOMAIN sessions \subseteq minted) /\ [][SessionLifeStep /\ ExpiredIdAsked]_vars

\* the session s1 was swept away and get_or_create_session, asked for s1, has
\* answered with the new, empty session s2
C21_Witness ==
    /\ resp.op = "get_or_create_session"
    /\ resp.asked = "s1"
    /\ "s1" \in minted \ DOMAIN sessions
    /\ resp.session_id = "s2"
    /\ sessions["s2"].iterations = <<>>

-----------------------------------------------------------------------------
(* SpecLive: the running service while the days pass.  lifespan starts no     *)
(* background task, so what runs is the handlers, whenever a request comes.   *)

\* cleanup_old_sessions: the default of max_age_hours
DEFAULT_MAX_AGE_HOURS == 24

\* the hours the service is watched for
MaxLiveHours == 48

\* a day passes
ServiceTick ==
    /\ clock < MaxLiveHours
    /\ clock' = clock + 24
    /\ UNCHANGED <<index, metadata, sessions, resp, minted, pending, ctor>>

\* models.SearchMode: the values SessionInfo.current_query_type accepts
SearchModes == {"text", "image", "hybrid"}

\* sum(len(it.<field>) for it in iterations), the lists given as a sequence
RECURSIVE total_len(_)
total_len(lists) == IF lists = <<>> THEN 0 ELSE Len(lists[1]) + total_len(Tail(lists))

\* Session.get_feedback_counts
get_feedback_counts(session) ==
    [positive |-> total_len([i \in DOMAIN session.iterations |->
                                session.iterations[i].positive_feedback]),
     negative |-> total_len([i \in DOMAIN session.iterations |->
                                session.iterations[i].negative_feedback])]

\* GET /session/{session_id}; SessionInfo(...) raises a ValidationError, and the
\* request ends in a 500, when query_type is no SearchMode
get_session_info(session_id) ==
    /\ IF ~has_session(session_id)
       THEN resp' = HttpError("get_session_info", 404, [session_id |-> session_id])
       ELSE LET session    == sessions[session_id]
                query_type == IF session.iterations # <<>>
                              THEN session.iterations[Len(session.iterations)].query_type
                              ELSE "none"
            IN  IF query_type \notin SearchModes
                THEN resp' = HttpError("get_session_info", 500,
                                       [session_id |-> session_id])
                ELSE resp' = [op |-> "get_session_info", status |-> 200,
                              request |-> [session_id |-> session_id],
                              session_id |-> session_id,
                              iterations |-> current_iteration(session),
                              current_query_type |-> query_type,
                              feedback_counts |-> get_feedback_counts(session)]
    /\ UNCHANGED <<index, metadata, sessions, clock, minted, pending, ctor>>

LiveTextRequests ==
    [query : {"red"}, top_k : {2}, session_id : DOMAIN sessions \cup {None}]

LiveFeedbackRequests ==
    {[session_id |-> sid, feedback_items |-> <<Item("A", "positive")>>,
      text_feedback |-> None, top_k |-> 2] : sid \in DOMAIN sessions \cup {UnknownSession}}

LivePseudoRequests ==
    [session_id : DOMAIN sessions \cup {UnknownSession}, top_m : {1}, top_k : {2}]

NextLive ==
    \/ ServiceTick
    \/ \E request \in LiveTextRequests : search_by_text(request)
    \/ \E request \in LiveFeedbackRequests : relevance_feedback(request)
    \/ \E request \in LivePseudoRequests : pseudo_relevance_feedback(request)
    \/ \E sid \in DOMAIN sessions \cup {UnknownSession} : get_session_info(sid)

\* time passes whatever the clients do; requests come when clients send them
SpecLive == Init /\ [][NextLive]_vars /\ WF_vars(ServiceTick)

\* the session is held and older than the default threshold of the sweep
Overdue(sid) ==
    /\ sid \in DOMAIN sessions
    /\ clock - sessions[sid].created_at > DEFAULT_MAX_AGE_HOURS

\* C22: in the running service every session older than the default
\* max_age_hours (24) is eventually deleted from the sessions.
C22_EventuallyReaped ==
    \A sid \in SessionIds : Overdue(sid) ~> (sid \notin DOMAIN sessions)

-----------------------------------------------------------------------------
(* Claims about get_query_vectors_2d, checked under SpecSession *)

\* the single point at the origin
OriginPoint == [x |-> 0, y |-> 0, iteration |-> 1]

\* get_query_vectors_2d has just answered for a session that is held
Projected == resp.op = "get_query_vectors_2d" /\ resp.session_id \in DOMAIN sessions

\* the original statement of C23: with fewer than 2 iterations, 0 or 1, the
\* answer is the single point at the origin, and no PCA is fitted
C23_FewIterationsOrigin ==
    (Projected /\ Len(sessions[resp.session_id].iterations) < 2) =>
        (resp.result = <<OriginPoint>> /\ ~resp.fitted)

\* C23 (amended): get_query_vectors_2d on a session with exactly 1 iteration
\* returns the single point x = 0, y = 0 with iteration 1, and on a session with
\* 0 iterations it returns no point at all; in neither case is a PCA fitted.
C23_FewIterations ==
    Projected =>
        LET n == Len(sessions[resp.session_id].iterations)
        IN  /\ n = 1 => (resp.result = <<OriginPoint>> /\ ~resp.fitted)
            /\ n = 0 => (resp.result = <<>> /\ ~resp.fitted)

\* get_query_vectors_2d has answered with the origin for a session of one
\* iteration, reference vectors given
C23_Witness ==
    /\ Projected
    /\ Len(sessions[resp.session_id].iterations) = 1
    /\ resp.reference_vectors # NoVector
    /\ resp.result = <<OriginPoint>>

\* C24: get_query_vectors_2d on a session with n >= 2 iterations returns
\* exactly n points, the i-th being the projection of the i-th iteration's
\* query vector and carrying iteration i, whether or not reference vectors are
\* given; the reference vectors enter the fit and give no point.
C24_OnePointPerIteration ==
    (Projected /\ Len(sessions[resp.session_id].iterations) >= 2) =>
        LET iterations == sessions[resp.session_id].iterations
            fitted     == [i \in DOMAIN iterations |-> iterations[i].query_vector]
                              \o resp.reference_vectors
        IN  /\ resp.fitted
            /\ Len(resp.result) = Len(iterations)
            /\ \A i \in DOMAIN iterations :
                  /\ resp.result[i].iteration = i
                  /\ <<resp.result[i].x, resp.result[i].y>> =
                         VSub(iterations[i].query_vector, Mean(fitted))

\* three points were returned for a session of three iterations whose fit took
\* in two reference vectors
C24_Witness ==
    /\ Projected
    /\ Len(sessions[resp.session_id].iterations) = 3
    /\ Len(resp.reference_vectors) = 2
    /\ Len(resp.result) = 3
    /\ resp.result[3].iteration = 3

-----------------------------------------------------------------------------
(* SpecAsync: requests served at the same time.  Every handler is an `async   *)
(* def` run by one event loop, so a handler runs undisturbed from one await   *)
(* to the next.  The only awaits are `await image.read()` in search_by_image   *)
(* and add_image_to_index: these two handlers are two steps each, the others  *)
(* one.  cleanup_old_sessions is called by whoever sweeps, between two steps. *)

\* mutant of sessions_at_record: the round records into the session as it was
\* when the round resolved it
sessions_as_resolved(sess, session_id, seen) ==
    IF session_id \in DOMAIN sess
    THEN [sess EXCEPT ![session_id].iterations = SubSeq(@, 1, seen)]
    ELSE sess

\* add_iteration looks the session up in self.sessions when it is called: the
\* round records into the sessions as they are then, whatever the number (seen)
\* of iterations the session had when the round resolved it
sessions_at_record(sess, session_id, seen) == sess

\* search_by_image up to `await image.read()`
image_search_begin(t, request) ==
    /\ pending[t] = Idle
    /\ IF ~IsImage(request.image)
       THEN /\ resp' = HttpError("search_by_image", 400, request)
            /\ UNCHANGED <<sessions, pending>>
       ELSE \E session_id \in get_or_create_ids(request.session_id) :
              /\ sessions' = get_or_create_session(session_id)
              /\ pending' = [pending EXCEPT ![t] =
                                [op |-> "search_by_image", request |-> request,
                                 session_id |-> session_id,
                                 seen |-> current_iteration(sessions'[session_id])]]
              /\ resp' = [op |-> "await", task |-> t]
    /\ minted' = minted \cup DOMAIN sessions'
    /\ UNCHANGED <<index, metadata, clock, ctor>>

\* search_by_image from `await image.read()` on
image_search_resume(t) ==
    /\ pending[t].op = "search_by_image"
    /\ \E request \in {pending[t].request}, session_id \in {pending[t].session_id} :
           IF ~Decodable(request.image)
           THEN /\ resp' = HttpError("search_by_image", 500, request)
                /\ UNCHANGED sessions
           ELSE LET query_vector == encode_image(request.image)
                IN  \E result \in search(query_vector, request.top_k) :
                      LET call == add_iteration_call(
                                      sessions_at_record(sessions, session_id,
                                                         pending[t].seen),
                                      session_id, query_vector, "image",
                                      result.image_ids, <<>>, <<>>, None)
                      IN  IF call.raised # None
                          THEN \* the ValueError of add_iteration ends the request
                               /\ resp' = HttpError("search_by_image", 500, request)
                               /\ UNCHANGED sessions
                          ELSE /\ RoomForRound
                               /\ sessions' = call.sessions
                               /\ resp' = [seen |-> pending[t].seen] @@
                                          SearchResponse("search_by_image", request,
                                              session_id, call.iteration, result)
    /\ pending' = [pending EXCEPT ![t] = Idle]
    /\ UNCHANGED <<index, metadata, clock, minted, ctor>>

\* add_image_to_index up to `await image.read()`
index_add_begin(t, request) ==
    /\ pending[t] = Idle
    /\ IF ~IsImage(request.image)
       THEN /\ resp' = HttpError("add_image_to_index", 400, request)
            /\ UNCHANGED pending
       ELSE \E image_id \in (IF Truthy(request.image_id) THEN {request.image_id}
                             ELSE MintedImageIds \ DOMAIN metadata.id_to_idx) :
              /\ pending' = [pending EXCEPT ![t] =
                                [op |-> "add_image_to_index", request |-> request,
                                 image_id |-> image_id]]
              /\ resp' = [op |-> "await", task |-> t]
    /\ UNCHANGED <<index, metadata, sessions, clock, minted, ctor>>

\* add_image_to_index from `await image.read()` on
index_add_resume(t) ==
    /\ pending[t].op = "add_image_to_index"
    /\ LET request  == pending[t].request
           image_id == pending[t].image_id
       IN  IF ~Decodable(request.image)
           THEN /\ resp' = HttpError("add_image_to_index", 500, request)
                /\ UNCHANGED <<index, metadata>>
           ELSE /\ ntotal < MaxUploads
                /\ LET after == add_vectors(<<encode_image(request.image)>>,
                                            <<image_id>>, <<image_id>>)
                   IN  /\ index' = after.index
                       /\ metadata' = after.metadata
                       /\ resp' = [op |-> "add_image_to_index", status |-> 200,
                                   request |-> request, image_id |-> image_id,
                                   total_images |-> Len(after.index)]
    /\ pending' = [pending EXCEPT ![t] = Idle]
    /\ UNCHANGED <<sessions, clock, minted, ctor>>

AsyncImageRequests ==
    [image : {"imgB"}, top_k : {2}, session_id : DOMAIN sessions \cup {None}]

AsyncFeedbackRequests ==
    {[session_id |-> sid, feedback_items |-> <<Item("A", "positive")>>,
      text_feedback |-> None, top_k |-> 2] : sid \in DOMAIN sessions}

AsyncIndexRequests == {[image |-> "imgA", image_id |-> "A"]}

\* the hours the concurrent service is watched for
MaxAsyncClock == 1

\* an hour passes
AsyncTick ==
    /\ clock < MaxAsyncClock
    /\ clock' = clock + 1
    /\ UNCHANGED <<index, metadata, sessions, resp, minted, pending, ctor>>

\* the threshold the sweep is run with
AsyncMaxAges == {0}

NextAsync ==
    \/ \E t \in Tasks, request \in AsyncImageRequests : image_search_begin(t, request)
    \/ \E t \in Tasks : image_search_resume(t)
    \/ \E t \in Tasks, request \in AsyncIndexRequests : index_add_begin(t, request)
    \/ \E t \in Tasks : index_add_resume(t)
    \/ \E request \in AsyncFeedbackRequests : relevance_feedback(request)
    \/ AsyncTick
    \/ \E h \in AsyncMaxAges : ReapCleanup(h)

SpecAsync == InitCreated /\ [][NextAsync]_vars

-----------------------------------------------------------------------------
(* Claims about requests served at the same time, checked under SpecAsync *)

\* a round has just been answered with 200
RoundAnswered ==
    /\ resp' # resp
    /\ resp'.op \in {"search_by_image", "relevance_feedback"}
    /\ resp'.status = 200

\* what the step that answers a round does to the sessions: the round's
\* iteration is appended to its session under the next number, the iterations
\* recorded before stay, and a feedback round writes its feedback into the
\* iteration that was the last one before its own
RoundRecordedStep ==
    RoundAnswered =>
        LET sid == resp'.session_id
        IN  /\ sid \in DOMAIN sessions
            /\ DOMAIN sessions' = DOMAIN sessions
            /\ \A other \in DOMAIN sessions \ {sid} : sessions'[other] = sessions[other]
            /\ LET before == sessions[sid].iterations
                   after  == sessions'[sid].iterations
                   n      == Len(before)
               IN  /\ Len(after) = n + 1
                   /\ after[n + 1].iteration = n + 1
                   /\ resp'.iteration = n + 1
                   /\ after[n + 1].query_type =
                          (IF resp'.op = "search_by_image" THEN "image" ELSE "feedback")
                   /\ \A i \in 1 .. n : RecordedFields(after[i]) = RecordedFields(before[i])
                   /\ \A i \in 1 .. n : i < n \/ resp'.op = "search_by_image" =>
                          FeedbackFields(after[i]) = FeedbackFields(before[i])
                   /\ resp'.op = "relevance_feedback" =>
                          after[n].positive_feedback =
                              feedback_ids(resp'.request.feedback_items, "positive")

\* C25: rounds served at the same time against one session are all recorded:
\* under every interleaving of their steps each answered round appends its
\* iteration under the next free number, so the numbers are distinct and
\* contiguous and no iteration recorded before is lost, and the feedback of a
\* feedback round lands on the iteration just before that round's own.
C25_RoundsSerialized == [](ContiguousIndexes) /\ [][RoundRecordedStep]_vars

\* an image round that resolved its session when it held no iteration has
\* recorded iteration 2: another image round on the session was answered while
\* it waited for its upload
C25_Witness ==
    /\ resp.op = "search_by_image"
    /\ resp.status = 200
    /\ resp.seen = 0
    /\ resp.iteration = 2
    /\ Len(sessions[resp.session_id].iterations) = 2
    /\ sessions[resp.session_id].iterations[1].query_type = "image"

\* the engine and the metadata agree: one entry per vector, in slot order, each
\* id with a slot in id_to_idx
StoreWhole ==
    /\ ntotal = Len(metadata.images)
    /\ \A i \in DOMAIN metadata.images :
          /\ metadata.images[i].idx = i - 1
          /\ metadata.images[i].image_id \in DOMAIN metadata.id_to_idx

\* the search of a round sees the whole collection of the moment
ReadStep ==
    RoundAnswered =>
        /\ Len(resp'.image_ids) = Min(resp'.request.top_k, ntotal)
        /\ \A i \in DOMAIN resp'.image_ids : resp'.image_ids[i] \in DOMAIN metadata.id_to_idx

\* C26: no search and no get_vector sees a partly applied add_vectors: in every
\* state a handler step starts from, under every interleaving with an upload
\* in flight, the engine holds as many vectors as the metadata has entries and
\* every entry's id has its slot, and a search returns what the collection of
\* that moment holds.
C26_InsertAtomic == [](StoreWhole) /\ [][ReadStep]_vars

\* an image round was answered from the empty collection while an upload to
\* the index waits for its bytes
C26_Witness ==
    /\ resp.op = "search_by_image"
    /\ resp.status = 200
    /\ resp.image_ids = <<>>
    /\ \E t \in Tasks : pending[t].op = "add_image_to_index"
    /\ ntotal = 0

\* C27: a sweep never gets between an image round and its session: once
\* search_by_image has resolved its session, the rest of the handler, given a
\* readable image, answers 200 and leaves its iteration as the last one of that
\* session.
C27_NoReapRace ==
    [][\A t \in Tasks :
          (/\ pending[t].op = "search_by_image"
           /\ pending'[t] = Idle
           /\ Decodable(pending[t].request.image)) =>
              /\ resp'.status = 200
              /\ pending[t].session_id \in DOMAIN sessions'
              /\ sessions'[pending[t].session_id].iterations # <<>>]_vars

-----------------------------------------------------------------------------
(* SpecCatalog: the VectorStore filled, read and cleared while the            *)
(* SessionManager holds sessions whose iterations name stored images.         *)

\* the vectors a caller inserts: a unit vector, a longer one and the zero vector
CatalogVectors == {<<Scale, 0>>, <<0, 2 * Scale>>, <<0, 0>>}

\* the ids a caller inserts under
CatalogIds == {"A", "B"}

\* what a caller records: the results and the feedback name stored images
CatalogRecords == {<<<<Scale, 0>>, "text", <<"A", "B">>>>}

CatalogFeedback == {<<<<"A">>, <<"B">>, None>>}

\* get_all_vectors()
StoreGetAllVectors ==
    /\ resp' = [op |-> "get_all_vectors", status |-> "ok", result |-> get_all_vectors]
    /\ UNCHANGED <<index, metadata, sessions, clock, minted, pending, ctor>>

NextCatalog ==
    \/ \E v \in CatalogVectors, id \in CatalogIds : StoreAdd(<<v>>, <<id>>)
    \/ StoreClear
    \/ \E id \in CatalogIds \cup {UnknownId} : StoreGetVector(id)
    \/ \E ids \in {<<"A", "B">>} : StoreGetVectors(ids)
    \/ StoreGetAllVectors
    \/ SessCreate
    \/ \E sid \in SessionIds, rec \in CatalogRecords, fb \in CatalogFeedback :
          SessAddIteration(sid, rec, fb)

SpecCatalog == InitCreated /\ [][NextCatalog]_vars

-----------------------------------------------------------------------------
(* Claims checked under SpecCatalog *)

\* what clear() does: the sessions stay as they are, the store is empty, and
\* get_vector finds none of the ids that were stored
ClearStep ==
    resp'.op = "clear" =>
        /\ sessions' = sessions
        /\ ntotal' = 0
        /\ DOMAIN metadata'.id_to_idx = {}
        /\ \A id \in DOMAIN metadata.id_to_idx : get_vector(id)' = NoVector

\* get_vector finds an id exactly when it was inserted since the last clear()
GetVectorFindsStored ==
    resp.op = "get_vector" =>
        (resp.result # NoVector <=> resp.image_id \in DOMAIN metadata.id_to_idx)

\* C28: clear() on the VectorStore leaves every session and every recorded
\* iteration, with its results and feedback ids, unchanged, and get_vector for
\* an id stored before returns None until that id is inserted again.
C28_ClearNoCascade == [](GetVectorFindsStored) /\ [][ClearStep]_vars

\* clear() has just emptied a store that held the image A; a session still
\* holds the iteration whose results and feedback name A, and get_vector finds
\* A no more
C28_Witness ==
    /\ resp.op = "clear"
    /\ "A" \in resp.cleared
    /\ get_vector("A") = NoVector
    /\ \E sid \in DOMAIN sessions :
          /\ Len(sessions[sid].iterations) = 2
          /\ sessions[sid].iterations[1].results = <<"A", "B">>
          /\ sessions[sid].iterations[1].positive_feedback = <<"A">>

\* the tolerance on a norm: two hundredths
NormTol == Scale \div 50

\* a vector of norm 1 within the tolerance
IsUnit(v) ==
    /\ \A i \in DOMAIN v : v[i] # NaN
    /\ Abs(Norm(v) - Scale) <= NormTol

\* C29: every vector the VectorStore gives back (get_vector, get_vectors,
\* get_all_vectors) has norm 1 within the tolerance, whatever was passed to
\* add_vectors, the zero vector included.
C29_StoredUnitNorm ==
    /\ \A i \in DOMAIN index : IsUnit(index[i])
    /\ resp.op = "get_vector" /\ resp.result # NoVector => IsUnit(resp.result)
    /\ resp.op \in {"get_vectors", "get_all_vectors"} =>
          \A i \in DOMAIN resp.result : IsUnit(resp.result[i])

-----------------------------------------------------------------------------
(* SpecRocchio: RocchioAlgorithm.refine_query called directly *)

\* the components of the query vectors a caller passes
QueryComponents == {-Scale, -75, -60, 0, 60, 80, 120}

\* the query vectors a caller passes: unit vectors, longer ones and the zero vector
RocchioQueries == {<<x, y>> : x \in QueryComponents, y \in QueryComponents}

\* an Optional array argument: <<>> is None, <<rows>> is the array of those rows
OptionalArrays == {<<>>, <<<<>>>>, <<<<<<0, Scale>>>>>>, <<<<<<Scale, 0>>, <<0, -Scale>>>>>>}

\* `x is not None and len(x) > 0`: the rows that count, none for None
rows_of(optional_array) == IF optional_array = <<>> THEN NoVector ELSE optional_array[1]

\* refine_query(query_vector, relevant_vectors, non_relevant_vectors)
RocchioRefine(query_vector, relevant_vectors, non_relevant_vectors) ==
    /\ resp' = [op |-> "refine_query", query_vector |-> query_vector,
                relevant_vectors |-> relevant_vectors,
                non_relevant_vectors |-> non_relevant_vectors,
                result |-> refine_query(query_vector, rows_of(relevant_vectors),
                                        rows_of(non_relevant_vectors)),
                status |-> "ok"]
    /\ UNCHANGED <<index, metadata, sessions, clock, minted, pending, ctor>>

NextRocchio ==
    \E q \in RocchioQueries, rel \in OptionalArrays, non \in OptionalArrays :
        RocchioRefine(q, rel, non)

SpecRocchio == InitCreated /\ [][NextRocchio]_vars

\* an argument that is None or an empty array
NoRows(optional_array) == optional_array \in {<<>>, <<<<>>>>}

\* C30: refine_query(q, None, None), and refine_query with an empty relevant
\* and an empty non-relevant array, return normalize(alpha * q) for every q;
\* with alpha = 1 and q of norm 1 that is q itself.
C30_RocchioIdentity ==
    (/\ resp.op = "refine_query"
     /\ NoRows(resp.relevant_vectors)
     /\ NoRows(resp.non_relevant_vectors)) =>
        /\ resp.result = normalize(Scaled(ROCCHIO_ALPHA, resp.query_vector))
        /\ (ROCCHIO_ALPHA = Scale /\ Norm(resp.query_vector) = Scale) =>
              resp.result = resp.query_vector

\* refine_query was given a query of norm 1.2, None as the relevant and an empty
\* array as the non-relevant vectors, and returned the unit vector of the query
C30_Witness ==
    /\ resp.op = "refine_query"
    /\ resp.query_vector = <<0, 120>>
    /\ resp.relevant_vectors = <<>>
    /\ resp.non_relevant_vectors = <<<<>>>>
    /\ resp.result = <<0, Scale>>

\* alpha * q + beta * mean(relevant) - gamma * mean(non-relevant), a term being
\* left out when its array is None or empty
RocchioCombination(q, relevant, non_relevant) ==
    LET plus == IF NoRows(relevant) THEN Scaled(ROCCHIO_ALPHA, q)
                ELSE VAdd(Scaled(ROCCHIO_ALPHA, q),
                          Scaled(ROCCHIO_BETA, Mean(relevant[1])))
    IN  IF NoRows(non_relevant) THEN plus
        ELSE VSub(plus, Scaled(ROCCHIO_GAMMA, Mean(non_relevant[1])))

\* C31: when alpha * q + beta * mean(relevant) - gamma * mean(non-relevant) has
\* norm zero, refine_query returns that zero vector as it is: it raises nothing
\* and divides nothing by zero, so no component is NaN.
C31_ZeroNormReturned ==
    (/\ resp.op = "refine_query"
     /\ Norm(RocchioCombination(resp.query_vector, resp.relevant_vectors,
                                resp.non_relevant_vectors)) = 0) =>
        /\ resp.status = "ok"
        /\ resp.result = <<0, 0>>

\* the query -0.75 b met the one relevant vector b: the combination is the zero
\* vector, and refine_query returned it
C31_Witness ==
    /\ resp.op = "refine_query"
    /\ resp.query_vector = <<0, -75>>
    /\ resp.relevant_vectors = <<<<<<0, Scale>>>>>>
    /\ NoRows(resp.non_relevant_vectors)
    /\ resp.result = <<0, 0>>

-----------------------------------------------------------------------------
(* Claims about session inspection and feedback counts, checked under SpecLive *)

\* C32: get_session_info answers 200 for every session that is held, whatever
\* recorded its last iteration, and reports that iteration's query_type and as
\* many iterations as the session holds.
C32_SessionInfoSucceeds ==
    (resp.op = "get_session_info" /\ resp.request.session_id \in DOMAIN sessions) =>
        LET session == sessions[resp.request.session_id]
        IN  /\ resp.status = 200
            /\ resp.iterations = Len(session.iterations)
            /\ session.iterations # <<>> =>
                  resp.current_query_type =
                      session.iterations[Len(session.iterations)].query_type

\* C35: every answered explicit-feedback round raises the totals of
\* get_feedback_counts by the number of positive and of negative items of its
\* request, each item counted once.
C35_FeedbackCountedOnce ==
    [][(/\ resp' # resp
        /\ resp'.op = "relevance_feedback"
        /\ resp'.status = 200) =>
          LET sid    == resp'.session_id
              before == get_feedback_counts(sessions[sid])
              after  == get_feedback_counts(sessions'[sid])
              items  == resp'.request.feedback_items
          IN  /\ after.positive = before.positive + Len(feedback_ids(items, "positive"))
              /\ after.negative = before.negative + Len(feedback_ids(items, "negative"))]_vars

-----------------------------------------------------------------------------
(* Claims about search, lookup and the metadata, checked under SpecStore *)

\* C33: every (id, score) of a search result has score = inner product of the
\* normalized query with get_vector(id), and the ids of one result list are
\* pairwise distinct.
C33_SearchAgreesWithLookup ==
    resp.op = "search" =>
        LET ids    == resp.result.image_ids
            scores == resp.result.scores
        IN  /\ \A i \in DOMAIN ids :
                  scores[i] = Dot(Unit(resp.query_vector), get_vector(ids[i]))
            /\ \A i, j \in DOMAIN ids : i # j => ids[i] # ids[j]

\* C34: after any sequence of add_vectors calls with lists of equal length and
\* of clear calls, the metadata list is as long as the engine count, the entry
\* at position s carries idx = s, and the entry at the slot the id-to-slot map
\* gives for an id carries that id.
C34_EngineMetadataConsistent ==
    /\ Len(metadata.images) = ntotal
    /\ \A s \in 0 .. (ntotal - 1) : metadata.images[s + 1].idx = s
    /\ \A id \in DOMAIN metadata.id_to_idx :
          /\ metadata.id_to_idx[id] \in 0 .. (ntotal - 1)
          /\ metadata.images[metadata.id_to_idx[id] + 1].image_id = id

C34_Witness == resp.op = "add_vectors" /\ Len(resp.image_ids) = 2 /\ ntotal = 3 /\ DOMAIN metadata.id_to_idx = {"A", "B"}

-----------------------------------------------------------------------------
(* Claims about rounds and sessions, checked under Spec *)

\* the session a request is about: the one it was answered for, else the one
\* it named
RequestTarget(r) ==
    IF "session_id" \in DOMAIN r THEN r.session_id
    ELSE IF "request" \in DOMAIN r /\ "session_id" \in DOMAIN r.request
         THEN r.request.session_id
         ELSE None

\* the session is still held, with the same iterations, feedback fields and
\* creation time
SessionKept(sid) == sid \in DOMAIN sessions' /\ sessions'[sid] = sessions[sid]

\* C36: a request about session A, answered or refused, changes no other
\* session B: B stays held with its iterations, feedback fields and creation
\* time; no step changes two sessions.
C36_SessionIsolation ==
    [][/\ \A A, B \in DOMAIN sessions : A # B => SessionKept(A) \/ SessionKept(B)
       /\ resp' # resp =>
             \A B \in DOMAIN sessions : B # RequestTarget(resp') => SessionKept(B)]_vars

C36_Witness == resp.op = "relevance_feedback" /\ resp.status = 200 /\ \E B \in DOMAIN sessions : B # resp.session_id /\ sessions[B].iterations # <<>>

\* the endpoints that answer with a SearchResponse
RoundOps == {"search_by_text", "search_by_image", "relevance_feedback",
             "pseudo_relevance_feedback"}

\* the iterations a session holds (none when it is not held)
IterationCount(sess, sid) == IF sid \in DOMAIN sess THEN Len(sess[sid].iterations) ELSE 0

\* the step answers a round with a 200
RoundSucceeds == resp' # resp /\ resp'.op \in RoundOps /\ resp'.status = 200

\* C37: the iteration number a successful round returns is the session's
\* iteration count right after the round and one more than the count before it;
\* the count of a session changes in no other step, so successive rounds on a
\* session return 1, 2, 3, ...; the trajectory of the response has one point
\* per iteration, the new one included.
C37_IterationNumbering ==
    [][/\ RoundSucceeds =>
             LET sid == resp'.session_id
             IN  /\ resp'.iteration = IterationCount(sessions', sid)
                 /\ resp'.iteration = IterationCount(sessions, sid) + 1
                 /\ Len(resp'.query_vectors) = resp'.iteration
                 /\ resp'.query_vectors[resp'.iteration].iteration = resp'.iteration
       /\ \A sid \in DOMAIN sessions' :
             IterationCount(sessions', sid) # IterationCount(sessions, sid) =>
                 RoundSucceeds /\ resp'.session_id = sid]_vars

C37_Witness == resp.op = "pseudo_relevance_feedback" /\ resp.status = 200 /\ resp.iteration = 3 /\ Len(resp.query_vectors) = 3

\* the pseudo-feedback request names a session with a current query of which
\* none of the top-m result ids of the last iteration resolves to a stored vector
NothingResolves(request) ==
    /\ request.session_id \in DOMAIN sessions
    /\ current_query_vector(sessions[request.session_id]) # NoVector
    /\ get_vectors(pseudo_last_results(sessions[request.session_id], request.top_m)) = <<>>

\* the last request was a pseudo-feedback round refused for want of vectors
RefusedForWantOfVectors ==
    /\ resp.op = "pseudo_relevance_feedback"
    /\ resp.status = 400
    /\ NothingResolves(resp.request)

\* after the refusal a text search and an image search on the session are
\* possible
ContinuationPossible ==
    (RefusedForWantOfVectors /\ RoomForRound) =>
        LET sid == resp.request.session_id
        IN  /\ ENABLED search_by_text([query |-> "red", top_k |-> 2, session_id |-> sid])
            /\ ENABLED search_by_image([image |-> "imgB", top_k |-> 2, session_id |-> sid])

\* a search on the refused session is answered with its next iteration
ContinuationAnswered ==
    (/\ RefusedForWantOfVectors
     /\ resp'.op \in {"search_by_text", "search_by_image"}
     /\ resp'.request.session_id = resp.request.session_id
     /\ resp'.op = "search_by_image" =>
            IsImage(resp'.request.image) /\ Decodable(resp'.request.image)) =>
        /\ resp'.status = 200
        /\ resp'.session_id = resp.request.session_id
        /\ resp'.iteration = Len(sessions[resp.request.session_id].iterations) + 1

\* C38: a pseudo-feedback round none of whose top-m result ids resolves to a
\* stored vector is answered with an error and leaves the sessions as they
\* were; after it a text search and an image search on the session are possible
\* and are answered with the session's next iteration.
C38_UnresolvedPseudoRejected ==
    /\ [](ContinuationPossible)
    /\ [][/\ (resp'.op = "pseudo_relevance_feedback" /\ NothingResolves(resp'.request)) =>
                 /\ resp'.status = 400
                 /\ sessions' = sessions
           /\ ContinuationAnswered]_vars

C38_Witness == RefusedForWantOfVectors /\ RoomForRound /\ sessions[resp.request.session_id].iterations[Len(sessions[resp.request.session_id].iterations)].results = <<>>

-----------------------------------------------------------------------------
(* SpecSingleton: SessionManager() and VectorStore() called by several       *)
(* threads.  A step is one read or write of a class or object attribute, or  *)
(* one lock operation; the interpreter may switch threads between any two.   *)
(* The first call of each constructor is the module-level one, made by the   *)
(* importing thread; the import lock keeps the class from every other thread *)
(* until the module body has run.                                            *)

\* the singletons before their modules are imported
InitSingleton ==
    /\ index = <<>>
    /\ metadata = [images |-> <<>>, id_to_idx |-> EmptyDict]
    /\ sessions = EmptyDict
    /\ resp = [op |-> "init"]
    /\ clock = 0
    /\ minted = {}
    /\ pending = [t \in Tasks |-> Idle]
    /\ ctor = ClassDefined

\* the thread moves on to `at`
goto(c, th, at) == [c EXCEPT !.pc[th].at = at]

\* what a constructor step that writes no instance attribute leaves alone
CtorFrame == UNCHANGED <<index, metadata, sessions, resp, clock, minted, pending>>

\* mutant of init_skipped: __init__ runs its body on every call
init_skipped_never(flag) == FALSE

\* __init__: `if self._initialized: return`
init_skipped(flag) == flag = "True"

\* a thread calls cls(): the module-level call of the importing thread, or any
\* call once the module is imported
construct_begin(th, c) ==
    /\ ctor.pc[th] = NoCall
    /\ ctor.imported[c] \/ th = MainThread
    /\ ctor' = [ctor EXCEPT !.pc[th] = [at |-> "new_check", cls |-> c, self |-> 0]]
    /\ CtorFrame

\* __new__: `if cls._instance is None:`
new_check(th) ==
    /\ ctor.pc[th].at = "new_check"
    /\ ctor' = goto(ctor, th, IF ctor.instance[ctor.pc[th].cls] = 0
                              THEN "new_lock" ELSE "new_return")
    /\ CtorFrame

\* __new__: `with cls._lock:`, entered when the lock is free
new_lock(th) ==
    /\ ctor.pc[th].at = "new_lock"
    /\ ctor.lock[ctor.pc[th].cls] = None
    /\ ctor' = [goto(ctor, th, "new_recheck") EXCEPT !.lock[ctor.pc[th].cls] = th]
    /\ CtorFrame

\* __new__: the second `if cls._instance is None:`, under the lock
new_recheck(th) ==
    /\ ctor.pc[th].at = "new_recheck"
    /\ ctor' = goto(ctor, th, IF ctor.instance[ctor.pc[th].cls] = 0
                              THEN "new_create" ELSE "new_unlock")
    /\ CtorFrame

\* __new__: `cls._instance = super().__new__(cls)`
new_create(th) ==
    /\ ctor.pc[th].at = "new_create"
    /\ LET c == ctor.pc[th].cls
       IN  ctor' = [goto(ctor, th, "new_flag") EXCEPT
                       !.objs[c] = Append(@, "unset"),
                       !.instance[c] = Len(ctor.objs[c]) + 1]
    /\ CtorFrame

\* __new__: `cls._instance._initialized = False`
new_flag(th) ==
    /\ ctor.pc[th].at = "new_flag"
    /\ LET c == ctor.pc[th].cls
       IN  ctor' = [goto(ctor, th, "new_unlock") EXCEPT
                       !.objs[c][ctor.instance[c]] = "False"]
    /\ CtorFrame

\* __new__: the end of the `with` block
new_unlock(th) ==
    /\ ctor.pc[th].at = "new_unlock"
    /\ ctor' = [goto(ctor, th, "new_return") EXCEPT !.lock[ctor.pc[th].cls] = None]
    /\ CtorFrame

\* __new__: `return cls._instance`
new_return(th) ==
    /\ ctor.pc[th].at = "new_return"
    /\ ctor' = [goto(ctor, th, "init_check") EXCEPT
                   !.pc[th].self = ctor.instance[ctor.pc[th].cls]]
    /\ CtorFrame

\* __init__: `if self._initialized: return`; the read raises AttributeError
\* while the attribute is not set
init_check(th) ==
    /\ ctor.pc[th].at = "init_check"
    /\ LET flag == ctor.objs[ctor.pc[th].cls][ctor.pc[th].self]
       IN  ctor' = goto(ctor, th, IF flag = "unset" THEN "raised"
                                  ELSE IF init_skipped(flag) THEN "done"
                                  ELSE "init_body")
    /\ CtorFrame

\* __init__: the attributes are set: `self.sessions = {}`, or the index and
\* metadata that _load_or_create_index finds (none, or those an earlier run saved)
init_body(th) ==
    /\ ctor.pc[th].at = "init_body"
    /\ ctor' = [goto(ctor, th, "init_flag") EXCEPT !.inits[ctor.pc[th].cls] = @ + 1]
    /\ IF ctor.pc[th].cls = "SessionManager"
       THEN /\ sessions' = EmptyDict
            /\ UNCHANGED <<index, metadata>>
       ELSE /\ \E store \in {CreatedIndex, LoadedIndex} :
                  /\ index' = store.index
                  /\ metadata' = store.metadata
            /\ UNCHANGED sessions
    /\ UNCHANGED <<resp, clock, minted, pending>>

\* __init__: `self._initialized = True`
init_flag(th) ==
    /\ ctor.pc[th].at = "init_flag"
    /\ ctor' = [goto(ctor, th, "done") EXCEPT
                   !.objs[ctor.pc[th].cls][ctor.pc[th].self] = "True"]
    /\ CtorFrame

\* the constructor call is over: the caller holds the object, or the exception;
\* the module-level call ends the import
construct_return(th) ==
    /\ ctor.pc[th].at \in {"done", "raised"}
    /\ resp' = [op |-> "construct", cls |-> ctor.pc[th].cls, thread |-> th,
                status |-> IF ctor.pc[th].at = "done" THEN "ok" ELSE "raised",
                instance |-> ctor.pc[th].self]
    /\ ctor' = [ctor EXCEPT !.pc[th] = NoCall,
                            !.imported[ctor.pc[th].cls] =
                                @ \/ (th = MainThread /\ ctor.pc[th].at = "done")]
    /\ UNCHANGED <<index, metadata, sessions, clock, minted, pending>>

\* session_manager.create_session(), once the module is imported
SingletonCreateSession ==
    /\ ctor.imported["SessionManager"]
    /\ SessCreate

\* what is inserted into the store beside the constructor calls
SingletonUploads == {<<"A", <<Scale, 0>>>>, <<"B", <<0, 2 * Scale>>>>}

\* vector_store.add_vectors(...), once the module is imported
SingletonAddVector ==
    /\ ctor.imported["VectorStore"]
    /\ \E u \in SingletonUploads : StoreAdd(<<u[2]>>, <<u[1]>>)

NextSingleton ==
    \/ \E th \in Threads, c \in Classes : construct_begin(th, c)
    \/ \E th \in Threads : new_check(th)
    \/ \E th \in Threads : new_lock(th)
    \/ \E th \in Threads : new_recheck(th)
    \/ \E th \in Threads : new_create(th)
    \/ \E th \in Threads : new_flag(th)
    \/ \E th \in Threads : new_unlock(th)
    \/ \E th \in Threads : new_return(th)
    \/ \E th \in Threads : init_check(th)
    \/ \E th \in Threads : init_body(th)
    \/ \E th \in Threads : init_flag(th)
    \/ \E th \in Threads : construct_return(th)
    \/ SingletonCreateSession
    \/ SingletonAddVector

SpecSingleton == InitSingleton /\ [][NextSingleton]_vars

-----------------------------------------------------------------------------
(* Claims about the singletons, checked under SpecSingleton *)

\* every constructor call that has returned gave the one object of its class,
\* and the body of __init__ has run at most once per class
OneInstance ==
    /\ \A c \in Classes : ctor.inits[c] <= 1 /\ Len(ctor.objs[c]) <= 1
    /\ \A c \in Classes : ctor.imported[c] => ctor.inits[c] = 1 /\ ctor.instance[c] = 1
    /\ resp.op = "construct" => resp.status = "ok" /\ resp.instance = 1

\* what has been stored stays: the sessions of the map, the vectors and the
\* metadata entries of the store
NothingReset ==
    /\ \A sid \in DOMAIN sessions :
          sid \in DOMAIN sessions' /\ sessions'[sid] = sessions[sid]
    /\ Len(index') >= Len(index)
    /\ SubSeq(index', 1, Len(index)) = index
    /\ SubSeq(metadata'.images, 1, Len(metadata.images)) = metadata.images

\* C39: the singletons are initialised once whatever threads call the
\* constructors: every call returns the same object, the body of __init__ runs
\* once, and no constructor call, later or concurrent, resets the sessions map
\* or the index and metadata once something has been stored.
C39_SingletonInitialisedOnce ==
    /\ [](OneInstance)
    /\ [][(sessions # EmptyDict \/ ntotal > 0) => NothingReset]_vars

C39_Witness == sessions # EmptyDict /\ ntotal > 0 /\ resp.op = "construct" /\ resp.thread = "Thread-1" /\ ctor.pc[MainThread].at = "init_check" /\ ctor.pc[MainThread].cls = resp.cls

=============================================================================
